---- MODULE Spec2Model ----
(***************************************************************************)
(* Model of the robot exploration simulation (RustProjetFinalRobots):      *)
(* the grid (Carte), the BFS path search, the obstacle-size limiter, the   *)
(* station depot ledger and the per-robot update pass deplacer_robots.     *)
(***************************************************************************)
EXTENDS Integers, Sequences, FiniteSets, TLC

(***************************************************************************)
(* Bounds of the model.                                                    *)
(***************************************************************************)
\* BFS inputs: every grid of at most MaxCellulesBfs cells (any width x height)
\* holding at most MaxObstaclesBfs Obstacle cells.
MaxCellulesBfs == 9
MaxObstaclesBfs == 3
\* Limiter inputs: every grid of Vide and Obstacle cells with at most
\* MaxCellulesLimiter cells (any width x height); the limiter is applied at
\* most MaxPasses times in a row.
MaxCellulesLimiter == 12
MaxPasses == 2
\* Depot inputs: discoveries reported at the cells of a row of
\* MaxPositionsDepot cells.
MaxPositionsDepot == 3
\* est_obstacle and placer_station inputs: every grid of at most
\* MaxCellulesCarte cells (any width x height) of any tiles.
MaxCellulesCarte == 3
\* Collector inputs: every grid of at most MaxCellulesCollecteur cells (any
\* width x height) with its station.
MaxCellulesCollecteur == 4
\* Single-robot inputs: every grid of at most MaxCellulesIsole cells (any
\* width x height) with its station.
MaxCellulesIsole == 4
\* Runs with a created Collecteur: the first MaxPassesRenfort passes of
\* deplacer_robots over the robots.
MaxPassesRenfort == 17

(***************************************************************************)
(* Program constants.                                                      *)
(***************************************************************************)
TAILLE_MAX_OBSTACLE == 5

(***************************************************************************)
(* Types.                                                                  *)
(***************************************************************************)
TypePixel == {"Vide", "Obstacle", "Energie", "Minerai", "SiteScientifique", "Station"}

\* Option<T>: None is the empty sequence, Some(v) the one-element sequence.
NoneV == <<>>
Some(v) == <<v>>
IsSome(o) == o # <<>>
Unwrap(o) == o[1]

\* donnees is a Vec<Vec<TypePixel>> indexed [y][x], rows and columns numbered
\* from 0.
MkCarte(donnees, largeur, hauteur) ==
  [donnees |-> donnees, largeur |-> largeur, hauteur |-> hauteur]

Cellules(carte) == (0..(carte.largeur - 1)) \X (0..(carte.hauteur - 1))

Tuile(carte, p) == carte.donnees[p[2]][p[1]]

(***************************************************************************)
(* Carte::est_obstacle                                                     *)
(***************************************************************************)
\* Faulty variant: every tile other than Vide counts as an obstacle.
est_obstacle_non_vide(carte, x, y) ==
  IF x < 0 \/ y < 0 \/ x >= carte.largeur \/ y >= carte.hauteur
    THEN TRUE
    ELSE carte.donnees[y][x] # "Vide"

est_obstacle(carte, x, y) ==
  IF x < 0 \/ y < 0 \/ x >= carte.largeur \/ y >= carte.hauteur
    THEN TRUE
    ELSE carte.donnees[y][x] = "Obstacle"

(***************************************************************************)
(* placer_station                                                          *)
(***************************************************************************)
\* Faulty variant: any cell that is not an Obstacle is accepted.
placer_station_tirage_non_obstacle(donnees, x, y) ==
  IF donnees[y][x] # "Obstacle"
    THEN [donnees |-> [donnees EXCEPT ![y][x] = "Station"], ret |-> Some(<<x, y>>)]
    ELSE [donnees |-> donnees, ret |-> NoneV]

\* One iteration of the loop, (x, y) being the coordinates drawn: the grid
\* after it and the value returned, None when the loop goes on.
placer_station_tirage(donnees, x, y) ==
  IF donnees[y][x] = "Vide"
    THEN [donnees |-> [donnees EXCEPT ![y][x] = "Station"], ret |-> Some(<<x, y>>)]
    ELSE [donnees |-> donnees, ret |-> NoneV]

(***************************************************************************)
(* calculer_chemin_bfs                                                     *)
(***************************************************************************)
Reverse(s) == [i \in 1..Len(s) |-> s[Len(s) + 1 - i]]

\* Faulty variant: the last direction repeats (1, 0) instead of (-1, 0).
directions_bfs_sans_gauche == << <<0, 1>>, <<0, -1>>, <<1, 0>>, <<1, 0>> >>

\* let directions = [(0, 1), (0, -1), (1, 0), (-1, 0)];
directions_bfs == << <<0, 1>>, <<0, -1>>, <<1, 0>>, <<-1, 0>> >>

\* The inner while loop that walks came_from back from arrivee to depart,
\* pushing onto chemin, followed by chemin.reverse().
RECURSIVE reconstruire_chemin(_, _, _, _)
reconstruire_chemin(came_from, depart, courant_retour, chemin) ==
  IF courant_retour = depart
    THEN Reverse(chemin)
    ELSE LET precedent == came_from[courant_retour]
         IN reconstruire_chemin(came_from, depart, precedent, Append(chemin, precedent))

\* The for loop over directions for one dequeued cell. st holds the locals
\* visites, file, came_from, and ret (the value of an early return).
RECURSIVE bfs_directions(_, _, _, _, _, _)
bfs_directions(carte, depart, arrivee, courant, k, st) ==
  IF k > Len(directions_bfs) THEN st
  ELSE
    LET nx == courant[1] + directions_bfs[k][1]
        ny == courant[2] + directions_bfs[k][2]
    IN IF ~est_obstacle(carte, nx, ny) /\ <<nx, ny>> \notin st.visites
         THEN LET st2 == [st EXCEPT !.visites = @ \cup {<<nx, ny>>},
                                    !.came_from = (<<nx, ny>> :> courant) @@ @,
                                    !.file = Append(@, <<nx, ny>>)]
              IN IF <<nx, ny>> = arrivee
                   THEN [st2 EXCEPT !.ret = Some(reconstruire_chemin(
                                      st2.came_from, depart, <<nx, ny>>, << <<nx, ny>> >>))]
                   ELSE bfs_directions(carte, depart, arrivee, courant, k + 1, st2)
         ELSE bfs_directions(carte, depart, arrivee, courant, k + 1, st)

\* Faulty variant: the queue is popped at the back (pop_back), a depth-first search.
RECURSIVE bfs_boucle_pile(_, _, _, _)
bfs_boucle_pile(carte, depart, arrivee, st) ==
  IF st.file = <<>> THEN [ret |-> NoneV, pops |-> st.pops]
  ELSE
    LET courant == st.file[Len(st.file)]
        st1 == bfs_directions(carte, depart, arrivee, courant, 1,
                              [st EXCEPT !.file = SubSeq(@, 1, Len(@) - 1), !.pops = @ + 1])
    IN IF IsSome(st1.ret)
         THEN [ret |-> st1.ret, pops |-> st1.pops]
         ELSE bfs_boucle_pile(carte, depart, arrivee, st1)

\* while let Some(courant) = file.pop_front() { ... } None
\* pops counts the iterations of the while loop.
RECURSIVE bfs_boucle(_, _, _, _)
bfs_boucle(carte, depart, arrivee, st) ==
  IF st.file = <<>> THEN [ret |-> NoneV, pops |-> st.pops]
  ELSE
    LET courant == Head(st.file)
        st1 == bfs_directions(carte, depart, arrivee, courant, 1,
                              [st EXCEPT !.file = Tail(@), !.pops = @ + 1])
    IN IF IsSome(st1.ret)
         THEN [ret |-> st1.ret, pops |-> st1.pops]
         ELSE bfs_boucle(carte, depart, arrivee, st1)

\* Faulty variant: the obstacle test comes first, so equal positions on an Obstacle
\* give None.
bfs_execution_obstacle_dabord(carte, depart, arrivee) ==
  IF est_obstacle(carte, depart[1], depart[2])
     \/ est_obstacle(carte, arrivee[1], arrivee[2])
    THEN [ret |-> NoneV, pops |-> 0]
  ELSE IF depart = arrivee THEN [ret |-> Some(<<depart>>), pops |-> 0]
    ELSE bfs_boucle(carte, depart, arrivee,
                    [visites |-> {depart}, file |-> <<depart>>,
                     came_from |-> <<>>, ret |-> NoneV, pops |-> 0])

\* The whole function, with the number of loop iterations it took.
bfs_execution(carte, depart, arrivee) ==
  IF depart = arrivee THEN [ret |-> Some(<<depart>>), pops |-> 0]
  ELSE IF est_obstacle(carte, depart[1], depart[2])
          \/ est_obstacle(carte, arrivee[1], arrivee[2])
    THEN [ret |-> NoneV, pops |-> 0]
    ELSE bfs_boucle(carte, depart, arrivee,
                    [visites |-> {depart}, file |-> <<depart>>,
                     came_from |-> <<>>, ret |-> NoneV, pops |-> 0])

calculer_chemin_bfs(carte, depart, arrivee) == bfs_execution(carte, depart, arrivee).ret

(***************************************************************************)
(* limiter_taille_obstacles                                                *)
(***************************************************************************)
\* let directions = [(0, 1), (1, 0), (0, -1), (-1, 0)];
directions_limiter == << <<0, 1>>, <<1, 0>>, <<0, -1>>, <<-1, 0>> >>

\* Faulty variant: the walk stops after the first cell it clears (a break
\* after the assignment).
RECURSIVE limiter_marche_arret(_, _, _, _, _, _)
limiter_marche_arret(st, largeur, hauteur, nx, ny, d) ==
  IF /\ nx >= 0 /\ nx < largeur /\ ny >= 0 /\ ny < hauteur
     /\ st.donnees[ny][nx] = "Obstacle"
    THEN LET taille == st.taille_obstacle + 1
         IN IF taille > TAILLE_MAX_OBSTACLE
              THEN [donnees |-> [st.donnees EXCEPT ![ny][nx] = "Vide"],
                    taille_obstacle |-> taille]
              ELSE limiter_marche_arret([donnees |-> st.donnees, taille_obstacle |-> taille],
                                        largeur, hauteur, nx + d[1], ny + d[2], d)
    ELSE st

\* Faulty variant: a cell is cleared only once the count exceeds
\* TAILLE_MAX_OBSTACLE + 1.
RECURSIVE limiter_marche_seuil_decale(_, _, _, _, _, _)
limiter_marche_seuil_decale(st, largeur, hauteur, nx, ny, d) ==
  IF /\ nx >= 0 /\ nx < largeur /\ ny >= 0 /\ ny < hauteur
     /\ st.donnees[ny][nx] = "Obstacle"
    THEN LET taille == st.taille_obstacle + 1
             donnees == IF taille > TAILLE_MAX_OBSTACLE + 1
                          THEN [st.donnees EXCEPT ![ny][nx] = "Vide"]
                          ELSE st.donnees
         IN limiter_marche_seuil_decale([donnees |-> donnees, taille_obstacle |-> taille],
                                        largeur, hauteur, nx + d[1], ny + d[2], d)
    ELSE st

\* Faulty variant: only the cell that brings the count to
\* TAILLE_MAX_OBSTACLE + 1 is cleared, the cells counted after it are kept.
RECURSIVE limiter_marche_seuil_exact(_, _, _, _, _, _)
limiter_marche_seuil_exact(st, largeur, hauteur, nx, ny, d) ==
  IF /\ nx >= 0 /\ nx < largeur /\ ny >= 0 /\ ny < hauteur
     /\ st.donnees[ny][nx] = "Obstacle"
    THEN LET taille == st.taille_obstacle + 1
             donnees == IF taille = TAILLE_MAX_OBSTACLE + 1
                          THEN [st.donnees EXCEPT ![ny][nx] = "Vide"]
                          ELSE st.donnees
         IN limiter_marche_seuil_exact([donnees |-> donnees, taille_obstacle |-> taille],
                                       largeur, hauteur, nx + d[1], ny + d[2], d)
    ELSE st

\* The while loop: walk from (nx, ny) along d over contiguous Obstacle cells,
\* counting each into taille_obstacle and clearing the cell once the count
\* exceeds TAILLE_MAX_OBSTACLE.
RECURSIVE limiter_marche(_, _, _, _, _, _)
limiter_marche(st, largeur, hauteur, nx, ny, d) ==
  IF /\ nx >= 0 /\ nx < largeur /\ ny >= 0 /\ ny < hauteur
     /\ st.donnees[ny][nx] = "Obstacle"
    THEN LET taille == st.taille_obstacle + 1
             donnees == IF taille > TAILLE_MAX_OBSTACLE
                          THEN [st.donnees EXCEPT ![ny][nx] = "Vide"]
                          ELSE st.donnees
         IN limiter_marche([donnees |-> donnees, taille_obstacle |-> taille],
                           largeur, hauteur, nx + d[1], ny + d[2], d)
    ELSE st

\* Faulty variant: the count restarts at 1 for each direction.
RECURSIVE limiter_directions_par_direction(_, _, _, _, _, _)
limiter_directions_par_direction(st, largeur, hauteur, x, y, k) ==
  IF k > Len(directions_limiter) THEN st
  ELSE LET d == directions_limiter[k]
       IN limiter_directions_par_direction(
            limiter_marche([st EXCEPT !.taille_obstacle = 1],
                           largeur, hauteur, x + d[1], y + d[2], d),
            largeur, hauteur, x, y, k + 1)

\* The for loop over directions from the starting cell (x, y); the count
\* taille_obstacle is carried from one direction to the next.
RECURSIVE limiter_directions(_, _, _, _, _, _)
limiter_directions(st, largeur, hauteur, x, y, k) ==
  IF k > Len(directions_limiter) THEN st
  ELSE LET d == directions_limiter[k]
       IN limiter_directions(
            limiter_marche(st, largeur, hauteur, x + d[1], y + d[2], d),
            largeur, hauteur, x, y, k + 1)

\* The two for loops over y and x, as one scan of cell number i = y * largeur + x.
RECURSIVE limiter_balayage(_, _, _, _)
limiter_balayage(donnees, largeur, hauteur, i) ==
  IF i >= largeur * hauteur THEN donnees
  ELSE LET x == i % largeur
           y == i \div largeur
       IN IF donnees[y][x] = "Obstacle"
            THEN limiter_balayage(
                   limiter_directions([donnees |-> donnees, taille_obstacle |-> 1],
                                      largeur, hauteur, x, y, 1).donnees,
                   largeur, hauteur, i + 1)
            ELSE limiter_balayage(donnees, largeur, hauteur, i + 1)

limiter_taille_obstacles(donnees) ==
  LET hauteur == Cardinality(DOMAIN donnees)
      largeur == IF hauteur > 0 THEN Cardinality(DOMAIN donnees[0]) ELSE 0
  IN limiter_balayage(donnees, largeur, hauteur, 0)

(***************************************************************************)
(* DepotStation, Decouverte, enregistrer_decouverte                        *)
(***************************************************************************)
MkDecouverte(resource, x, y) == [resource |-> resource, x |-> x, y |-> y]

DepotInitial == [decouvertes |-> <<>>, stock_energie |-> 0, stock_minerai |-> 0]

\* Faulty variant: an entry counts as existing only with the same resource too.
trouver_existante_meme_ressource(decouvertes, decouverte) ==
  LET trouves == {i \in 1..Len(decouvertes) :
                    /\ decouvertes[i].x = decouverte.x /\ decouvertes[i].y = decouverte.y
                    /\ decouvertes[i].resource = decouverte.resource}
  IN IF trouves = {} THEN 0 ELSE CHOOSE i \in trouves : \A j \in trouves : i <= j

\* depot.decouvertes.iter().find(|d| d.x == decouverte.x && d.y == decouverte.y):
\* index of the first such entry, 0 when there is none.
trouver_existante(decouvertes, decouverte) ==
  LET trouves == {i \in 1..Len(decouvertes) :
                    decouvertes[i].x = decouverte.x /\ decouvertes[i].y = decouverte.y}
  IN IF trouves = {} THEN 0 ELSE CHOOSE i \in trouves : \A j \in trouves : i <= j

\* The message printed by enregistrer_decouverte: which branch was taken.
enregistrer_issue(depot, decouverte) ==
  LET i == trouver_existante(depot.decouvertes, decouverte)
  IN IF i # 0
       THEN IF depot.decouvertes[i].resource # decouverte.resource
              THEN "conflit" ELSE "deja_enregistree"
       ELSE "enregistree"

\* Faulty variant: a report for a position already in the ledger is pushed all
\* the same when it agrees with the existing entry.
enregistrer_decouverte_doublon(depot, decouverte) ==
  LET i == trouver_existante(depot.decouvertes, decouverte)
  IN IF i # 0 /\ depot.decouvertes[i].resource # decouverte.resource
       THEN depot
       ELSE [depot EXCEPT !.decouvertes = Append(@, decouverte)]

\* Faulty variant: on a conflict the new report replaces the existing entry.
enregistrer_decouverte_dernier_gagne(depot, decouverte) ==
  LET i == trouver_existante(depot.decouvertes, decouverte)
  IN IF i # 0
       THEN IF depot.decouvertes[i].resource # decouverte.resource
              THEN [depot EXCEPT !.decouvertes[i] = decouverte]
              ELSE depot
       ELSE [depot EXCEPT !.decouvertes = Append(@, decouverte)]

enregistrer_decouverte(depot, decouverte) ==
  LET i == trouver_existante(depot.decouvertes, decouverte)
  IN IF i # 0
       THEN depot
       ELSE [depot EXCEPT !.decouvertes = Append(@, decouverte)]

\* Faulty variant: the last matching entry is taken (rposition).
position_reclamable_derniere(depot, c, resource_filtre) ==
  LET bons == {i \in 1..Len(depot.decouvertes) :
                 /\ depot.decouvertes[i].resource = resource_filtre
                 /\ c.donnees[depot.decouvertes[i].y][depot.decouvertes[i].x]
                      = depot.decouvertes[i].resource}
  IN IF bons = {} THEN 0 ELSE CHOOSE i \in bons : \A j \in bons : j <= i

\* Faulty variant: the first entry of the type is taken, whatever its tile
\* holds.
position_reclamable_sans_grille(depot, c, resource_filtre) ==
  LET bons == {i \in 1..Len(depot.decouvertes) :
                 depot.decouvertes[i].resource = resource_filtre}
  IN IF bons = {} THEN 0 ELSE CHOOSE i \in bons : \A j \in bons : i <= j

\* The Collector's claim: depot.decouvertes.iter().position(|d| d.resource ==
\* resource_filtre && carte.donnees[d.y][d.x] == d.resource); 0 when None.
position_reclamable(depot, c, resource_filtre) ==
  LET bons == {i \in 1..Len(depot.decouvertes) :
                 /\ depot.decouvertes[i].resource = resource_filtre
                 /\ c.donnees[depot.decouvertes[i].y][depot.decouvertes[i].x]
                      = depot.decouvertes[i].resource}
  IN IF bons = {} THEN 0 ELSE CHOOSE i \in bons : \A j \in bons : i <= j

\* Vec::remove(index), index counted from 1.
Retirer(s, index) == SubSeq(s, 1, index - 1) \o SubSeq(s, index + 1, Len(s))

(***************************************************************************)
(* Robot, creer_robots, creer_collecteur                                   *)
(***************************************************************************)
MkRobot(x, y, role, modules) ==
  [x |-> x, y |-> y, etat |-> "Explorer", role |-> role,
   decouvertes |-> <<>>, cargo |-> NoneV, cible |-> NoneV,
   visites |-> {}, modules |-> modules]

\* let nb_explorateurs = 3; nb_collecteurs_analyse = 1; nb_collecteurs_forage = 1
nb_explorateurs == 3
nb_collecteurs_analyse == 1
nb_collecteurs_forage == 1

\* The robots creer_robots spawns, in spawn order.
RobotsInitiaux(st) ==
  [i \in 1..nb_explorateurs |->
     MkRobot(st.x, st.y, "Explorateur", <<"ImagerieHauteResolution">>)]
  \o [i \in 1..nb_collecteurs_analyse |->
        MkRobot(st.x, st.y, "Collecteur", <<"AnalyseChimique">>)]
  \o [i \in 1..nb_collecteurs_forage |->
        MkRobot(st.x, st.y, "Collecteur", <<"Forage">>)]

\* Faulty variant: the new collector carries the module it was asked for only
\* by name, and gets the other one.
creer_collecteur_inverse(st, module) ==
  MkRobot(st.x, st.y, "Collecteur",
          IF module = "Forage" THEN <<"AnalyseChimique">>
          ELSE IF module = "AnalyseChimique" THEN <<"Forage">>
          ELSE <<>>)

\* The Robot component creer_collecteur spawns.
creer_collecteur(st, module) ==
  MkRobot(st.x, st.y, "Collecteur",
          IF module = "Forage" THEN <<"Forage">>
          ELSE IF module = "AnalyseChimique" THEN <<"AnalyseChimique">>
          ELSE <<>>)

(***************************************************************************)
(* deplacer_robots: the update of one robot                                *)
(***************************************************************************)
\* let directions = [(0, 1), (0, -1), (1, 0), (-1, 0)];
directions_robots == << <<0, 1>>, <<0, -1>>, <<1, 0>>, <<-1, 0>> >>

Contient(s, v) == \E i \in 1..Len(s) : s[i] = v

\* Faulty variant: the neighbours in bounds, Obstacle or not.
deplacements_possibles_a_travers(c, robot) ==
  LET voisins == [k \in 1..Len(directions_robots) |->
                    <<robot.x + directions_robots[k][1], robot.y + directions_robots[k][2]>>]
      DansLaGrille(p) == /\ p[1] >= 0 /\ p[2] >= 0
                         /\ p[1] < c.largeur /\ p[2] < c.hauteur
  IN SelectSeq(voisins, DansLaGrille)

\* Explorateur / Explorer: the in-bounds non-Obstacle neighbours, in the
\* order of directions.
deplacements_possibles(c, robot) ==
  LET voisins == [k \in 1..Len(directions_robots) |->
                    <<robot.x + directions_robots[k][1], robot.y + directions_robots[k][2]>>]
      Accessible(p) == /\ p[1] >= 0 /\ p[2] >= 0
                       /\ p[1] < c.largeur /\ p[2] < c.hauteur
                       /\ ~est_obstacle(c, p[1], p[2])
  IN SelectSeq(voisins, Accessible)

\* Faulty variant: the draw is made among all the possible moves, visited or
\* not.
destinations_explorateur_sans_preference(c, robot, visites) ==
  LET possibles == deplacements_possibles(c, robot)
  IN IF possibles # <<>> THEN {possibles[i] : i \in 1..Len(possibles)}
     ELSE {<<robot.x, robot.y>>}

\* The cells the random draw of the Explorer can give, visites being the
\* visited set after the insertion of the current position.
destinations_explorateur(c, robot, visites) ==
  LET possibles == deplacements_possibles(c, robot)
      NonVisite(p) == p \notin visites
      non_visites == SelectSeq(possibles, NonVisite)
  IN IF non_visites # <<>> THEN {non_visites[i] : i \in 1..Len(non_visites)}
     ELSE IF possibles # <<>> THEN {possibles[i] : i \in 1..Len(possibles)}
     ELSE {<<robot.x, robot.y>>}

\* Faulty variant: the resource of the new cell is recorded whether or not
\* the list holds its position already.
explorateur_explorer_sans_deja_trouve(c, robot, nouveau) ==
  LET visites == robot.visites \cup {<<robot.x, robot.y>>}
      nouveau_x == nouveau[1]
      nouveau_y == nouveau[2]
      deplace == [robot EXCEPT !.visites = visites, !.x = nouveau_x, !.y = nouveau_y]
  IN IF nouveau_x >= 0 /\ nouveau_y >= 0 /\ nouveau_x < c.largeur /\ nouveau_y < c.hauteur
       THEN LET tuile == c.donnees[nouveau_y][nouveau_x]
            IN IF tuile = "Energie" \/ tuile = "Minerai"
                 THEN LET decouvertes == Append(robot.decouvertes,
                                                MkDecouverte(tuile, nouveau_x, nouveau_y))
                      IN [deplace EXCEPT !.decouvertes = decouvertes,
                                         !.etat = IF Len(decouvertes) >= 2
                                                    THEN "Retourner" ELSE @]
                 ELSE deplace
       ELSE deplace

\* Faulty variant: the robot turns back once its list holds 3 entries.
explorateur_explorer_seuil_trois(c, robot, nouveau) ==
  LET visites == robot.visites \cup {<<robot.x, robot.y>>}
      nouveau_x == nouveau[1]
      nouveau_y == nouveau[2]
      deplace == [robot EXCEPT !.visites = visites, !.x = nouveau_x, !.y = nouveau_y]
  IN IF nouveau_x >= 0 /\ nouveau_y >= 0 /\ nouveau_x < c.largeur /\ nouveau_y < c.hauteur
       THEN LET tuile == c.donnees[nouveau_y][nouveau_x]
                deja_trouve == \E i \in 1..Len(robot.decouvertes) :
                                  /\ robot.decouvertes[i].x = nouveau_x
                                  /\ robot.decouvertes[i].y = nouveau_y
            IN IF (tuile = "Energie" \/ tuile = "Minerai") /\ ~deja_trouve
                 THEN LET decouvertes == Append(robot.decouvertes,
                                                MkDecouverte(tuile, nouveau_x, nouveau_y))
                      IN [deplace EXCEPT !.decouvertes = decouvertes,
                                         !.etat = IF Len(decouvertes) >= 3
                                                    THEN "Retourner" ELSE @]
                 ELSE deplace
       ELSE deplace

\* Faulty variant: the resource of the new cell is recorded as the other
\* resource.
explorateur_explorer_ressource_inversee(c, robot, nouveau) ==
  LET visites == robot.visites \cup {<<robot.x, robot.y>>}
      nouveau_x == nouveau[1]
      nouveau_y == nouveau[2]
      deplace == [robot EXCEPT !.visites = visites, !.x = nouveau_x, !.y = nouveau_y]
  IN IF nouveau_x >= 0 /\ nouveau_y >= 0 /\ nouveau_x < c.largeur /\ nouveau_y < c.hauteur
       THEN LET tuile == c.donnees[nouveau_y][nouveau_x]
                deja_trouve == \E i \in 1..Len(robot.decouvertes) :
                                  /\ robot.decouvertes[i].x = nouveau_x
                                  /\ robot.decouvertes[i].y = nouveau_y
            IN IF (tuile = "Energie" \/ tuile = "Minerai") /\ ~deja_trouve
                 THEN LET decouvertes ==
                            Append(robot.decouvertes,
                                   MkDecouverte(IF tuile = "Energie" THEN "Minerai"
                                                ELSE "Energie",
                                                nouveau_x, nouveau_y))
                      IN [deplace EXCEPT !.decouvertes = decouvertes,
                                         !.etat = IF Len(decouvertes) >= 2
                                                    THEN "Retourner" ELSE @]
                 ELSE deplace
       ELSE deplace

\* Explorateur / Explorer, once the destination is drawn: move, then detect
\* the resource of the new cell.
explorateur_explorer(c, robot, nouveau) ==
  LET visites == robot.visites \cup {<<robot.x, robot.y>>}
      nouveau_x == nouveau[1]
      nouveau_y == nouveau[2]
      deplace == [robot EXCEPT !.visites = visites, !.x = nouveau_x, !.y = nouveau_y]
  IN IF nouveau_x >= 0 /\ nouveau_y >= 0 /\ nouveau_x < c.largeur /\ nouveau_y < c.hauteur
       THEN LET tuile == c.donnees[nouveau_y][nouveau_x]
                deja_trouve == \E i \in 1..Len(robot.decouvertes) :
                                  /\ robot.decouvertes[i].x = nouveau_x
                                  /\ robot.decouvertes[i].y = nouveau_y
            IN IF (tuile = "Energie" \/ tuile = "Minerai") /\ ~deja_trouve
                 THEN LET decouvertes == Append(robot.decouvertes,
                                                MkDecouverte(tuile, nouveau_x, nouveau_y))
                      IN [deplace EXCEPT !.decouvertes = decouvertes,
                                         !.etat = IF Len(decouvertes) >= 2
                                                    THEN "Retourner" ELSE @]
                 ELSE deplace
       ELSE deplace

\* Faulty variant: the list is walked from its last entry to its first.
RECURSIVE enregistrer_toutes_inverse(_, _, _)
enregistrer_toutes_inverse(d, decouvertes, i) ==
  IF i > Len(decouvertes) THEN d
  ELSE LET dec == decouvertes[Len(decouvertes) + 1 - i]
       IN enregistrer_toutes_inverse(
            IF dec.resource = "Energie" \/ dec.resource = "Minerai"
              THEN enregistrer_decouverte(d, dec) ELSE d,
            decouvertes, i + 1)

\* for dec in &robot.decouvertes { if Energie or Minerai { enregistrer_decouverte } }
RECURSIVE enregistrer_toutes(_, _, _)
enregistrer_toutes(d, decouvertes, i) ==
  IF i > Len(decouvertes) THEN d
  ELSE enregistrer_toutes(
         IF decouvertes[i].resource = "Energie" \/ decouvertes[i].resource = "Minerai"
           THEN enregistrer_decouverte(d, decouvertes[i]) ELSE d,
         decouvertes, i + 1)

\* Faulty variant: a robot without a path steps onto the first neighbour it
\* can enter.
avancer_vers_force(c, robot, objectif) ==
  LET chemin == calculer_chemin_bfs(c, <<robot.x, robot.y>>, objectif)
      possibles == deplacements_possibles(c, robot)
  IN IF IsSome(chemin)
       THEN IF Len(Unwrap(chemin)) > 1
              THEN [robot EXCEPT !.x = Unwrap(chemin)[2][1], !.y = Unwrap(chemin)[2][2]]
              ELSE robot
       ELSE IF possibles # <<>>
              THEN [robot EXCEPT !.x = possibles[1][1], !.y = possibles[1][2]]
              ELSE robot

\* Faulty variant: the robot moves to the third cell of a path that has
\* one.
avancer_vers_deux_pas(c, robot, objectif) ==
  LET chemin == calculer_chemin_bfs(c, <<robot.x, robot.y>>, objectif)
  IN IF IsSome(chemin) /\ Len(Unwrap(chemin)) > 2
       THEN [robot EXCEPT !.x = Unwrap(chemin)[3][1], !.y = Unwrap(chemin)[3][2]]
     ELSE IF IsSome(chemin) /\ Len(Unwrap(chemin)) > 1
       THEN [robot EXCEPT !.x = Unwrap(chemin)[2][1], !.y = Unwrap(chemin)[2][2]]
       ELSE robot

\* Faulty variant: the robot never leaves its cell.
avancer_vers_sur_place(c, robot, objectif) == robot

\* if let Some(chemin) = calculer_chemin_bfs(..) { if chemin.len() > 1 { move
\* to chemin[1] } }: the robot after the move, unchanged when it does not move.
avancer_vers(c, robot, objectif) ==
  LET chemin == calculer_chemin_bfs(c, <<robot.x, robot.y>>, objectif)
  IN IF IsSome(chemin) /\ Len(Unwrap(chemin)) > 1
       THEN [robot EXCEPT !.x = Unwrap(chemin)[2][1], !.y = Unwrap(chemin)[2][2]]
       ELSE robot

\* Explorateur / Retourner: [robot, depot] after the step.
explorateur_retourner(c, st, d, robot) ==
  IF robot.x = st.x /\ robot.y = st.y
    THEN [robot |-> [robot EXCEPT !.decouvertes = <<>>, !.etat = "Explorer"],
          depot |-> enregistrer_toutes(d, robot.decouvertes, 1)]
    ELSE [robot |-> avancer_vers(c, robot, <<st.x, st.y>>), depot |-> d]

\* let resource_filtre = if modules.contains(AnalyseChimique) { Energie } else
\* if modules.contains(Forage) { Minerai } else { Vide }
resource_filtre(robot) ==
  IF Contient(robot.modules, "AnalyseChimique") THEN "Energie"
  ELSE IF Contient(robot.modules, "Forage") THEN "Minerai"
  ELSE "Vide"

\* Faulty variant: the claim leaves the entry in the ledger.
collecteur_reclamer_sans_retrait(c, st, d, robot) ==
  IF robot.x = st.x /\ robot.y = st.y /\ robot.cible = NoneV
    THEN LET index == position_reclamable(d, c, resource_filtre(robot))
         IN IF index # 0
              THEN [robot |-> [robot EXCEPT !.cible =
                                 Some(<<d.decouvertes[index].x, d.decouvertes[index].y>>)],
                    depot |-> d]
              ELSE [robot |-> robot, depot |-> d]
    ELSE [robot |-> robot, depot |-> d]

\* Collecteur / Explorer, first part: the claim of a ledger entry at the
\* station. [robot, depot] after it.
collecteur_reclamer(c, st, d, robot) ==
  IF robot.x = st.x /\ robot.y = st.y /\ robot.cible = NoneV
    THEN LET index == position_reclamable(d, c, resource_filtre(robot))
         IN IF index # 0
              THEN [robot |-> [robot EXCEPT !.cible =
                                 Some(<<d.decouvertes[index].x, d.decouvertes[index].y>>)],
                    depot |-> [d EXCEPT !.decouvertes = Retirer(@, index)]]
              ELSE [robot |-> robot, depot |-> d]
    ELSE [robot |-> robot, depot |-> d]

\* Faulty variant: a Collector that finds the resource of its target gone
\* keeps the target and its state.
collecteur_chercher_garde_cible(c, robot) ==
  IF robot.cible = NoneV THEN [robot |-> robot, carte |-> c]
  ELSE
    LET cx == Unwrap(robot.cible)[1]
        cy == Unwrap(robot.cible)[2]
        chemin == calculer_chemin_bfs(c, <<robot.x, robot.y>>, <<cx, cy>>)
    IN IF IsSome(chemin)
         THEN LET avance == avancer_vers(c, robot, <<cx, cy>>)
              IN IF avance.x = cx /\ avance.y = cy
                   THEN IF c.donnees[cy][cx] = resource_filtre(robot)
                          THEN [robot |-> [avance EXCEPT
                                             !.cargo = Some(<<c.donnees[cy][cx], cx, cy>>),
                                             !.cible = NoneV, !.etat = "Retourner"],
                                carte |-> [c EXCEPT !.donnees[cy][cx] = "Vide"]]
                          ELSE [robot |-> avance, carte |-> c]
                   ELSE [robot |-> avance, carte |-> c]
         ELSE [robot |-> [robot EXCEPT !.cible = NoneV, !.etat = "Retourner"],
               carte |-> c]

\* Faulty variant: a resource tile the Collector steps onto on its way is
\* cleared as well.
collecteur_chercher_efface_passage(c, robot) ==
  IF robot.cible = NoneV THEN [robot |-> robot, carte |-> c]
  ELSE
    LET cx == Unwrap(robot.cible)[1]
        cy == Unwrap(robot.cible)[2]
        chemin == calculer_chemin_bfs(c, <<robot.x, robot.y>>, <<cx, cy>>)
    IN IF IsSome(chemin)
         THEN LET avance == avancer_vers(c, robot, <<cx, cy>>)
              IN IF avance.x = cx /\ avance.y = cy
                   THEN IF c.donnees[cy][cx] = resource_filtre(robot)
                          THEN [robot |-> [avance EXCEPT
                                             !.cargo = Some(<<c.donnees[cy][cx], cx, cy>>),
                                             !.cible = NoneV, !.etat = "Retourner"],
                                carte |-> [c EXCEPT !.donnees[cy][cx] = "Vide"]]
                          ELSE [robot |-> [avance EXCEPT !.cible = NoneV,
                                                         !.etat = "Retourner"],
                                carte |-> c]
                   ELSE [robot |-> avance,
                         carte |-> IF c.donnees[avance.y][avance.x] \in {"Energie", "Minerai"}
                                     THEN [c EXCEPT !.donnees[avance.y][avance.x] = "Vide"]
                                     ELSE c]
         ELSE [robot |-> [robot EXCEPT !.cible = NoneV, !.etat = "Retourner"],
               carte |-> c]

\* Faulty variant: a Collector without a path to its target keeps the target
\* and its state.
collecteur_chercher_sans_abandon(c, robot) ==
  IF robot.cible = NoneV THEN [robot |-> robot, carte |-> c]
  ELSE
    LET cx == Unwrap(robot.cible)[1]
        cy == Unwrap(robot.cible)[2]
        chemin == calculer_chemin_bfs(c, <<robot.x, robot.y>>, <<cx, cy>>)
    IN IF IsSome(chemin)
         THEN LET avance == avancer_vers(c, robot, <<cx, cy>>)
              IN IF avance.x = cx /\ avance.y = cy
                   THEN IF c.donnees[cy][cx] = resource_filtre(robot)
                          THEN [robot |-> [avance EXCEPT
                                             !.cargo = Some(<<c.donnees[cy][cx], cx, cy>>),
                                             !.cible = NoneV, !.etat = "Retourner"],
                                carte |-> [c EXCEPT !.donnees[cy][cx] = "Vide"]]
                          ELSE [robot |-> [avance EXCEPT !.cible = NoneV,
                                                         !.etat = "Retourner"],
                                carte |-> c]
                   ELSE [robot |-> avance, carte |-> c]
         ELSE [robot |-> robot, carte |-> c]

\* Faulty variant: the pickup leaves the resource on the tile.
collecteur_chercher_sans_effacer(c, robot) ==
  IF robot.cible = NoneV THEN [robot |-> robot, carte |-> c]
  ELSE
    LET cx == Unwrap(robot.cible)[1]
        cy == Unwrap(robot.cible)[2]
        chemin == calculer_chemin_bfs(c, <<robot.x, robot.y>>, <<cx, cy>>)
    IN IF IsSome(chemin)
         THEN LET avance == avancer_vers(c, robot, <<cx, cy>>)
              IN IF avance.x = cx /\ avance.y = cy
                   THEN IF c.donnees[cy][cx] = resource_filtre(robot)
                          THEN [robot |-> [avance EXCEPT
                                             !.cargo = Some(<<c.donnees[cy][cx], cx, cy>>),
                                             !.cible = NoneV, !.etat = "Retourner"],
                                carte |-> c]
                          ELSE [robot |-> [avance EXCEPT !.cible = NoneV,
                                                         !.etat = "Retourner"],
                                carte |-> c]
                   ELSE [robot |-> avance, carte |-> c]
         ELSE [robot |-> [robot EXCEPT !.cible = NoneV, !.etat = "Retourner"],
               carte |-> c]

\* Faulty variant: a Collector that arrives on its target stays there with
\* its target, whatever the tile holds.
collecteur_chercher_sans_ramassage(c, robot) ==
  IF robot.cible = NoneV THEN [robot |-> robot, carte |-> c]
  ELSE
    LET cx == Unwrap(robot.cible)[1]
        cy == Unwrap(robot.cible)[2]
        chemin == calculer_chemin_bfs(c, <<robot.x, robot.y>>, <<cx, cy>>)
    IN IF IsSome(chemin)
         THEN [robot |-> avancer_vers(c, robot, <<cx, cy>>), carte |-> c]
         ELSE [robot |-> [robot EXCEPT !.cible = NoneV, !.etat = "Retourner"],
               carte |-> c]

\* Faulty variant: the pickup of an Energie leaves a Minerai on the tile.
collecteur_chercher_laisse_minerai(c, robot) ==
  IF robot.cible = NoneV THEN [robot |-> robot, carte |-> c]
  ELSE
    LET cx == Unwrap(robot.cible)[1]
        cy == Unwrap(robot.cible)[2]
        chemin == calculer_chemin_bfs(c, <<robot.x, robot.y>>, <<cx, cy>>)
    IN IF IsSome(chemin)
         THEN LET avance == avancer_vers(c, robot, <<cx, cy>>)
              IN IF avance.x = cx /\ avance.y = cy
                   THEN IF c.donnees[cy][cx] = resource_filtre(robot)
                          THEN [robot |-> [avance EXCEPT
                                             !.cargo = Some(<<c.donnees[cy][cx], cx, cy>>),
                                             !.cible = NoneV, !.etat = "Retourner"],
                                carte |-> [c EXCEPT !.donnees[cy][cx] =
                                             IF c.donnees[cy][cx] = "Energie"
                                               THEN "Minerai" ELSE "Vide"]]
                          ELSE [robot |-> [avance EXCEPT !.cible = NoneV,
                                                         !.etat = "Retourner"],
                                carte |-> c]
                   ELSE [robot |-> avance, carte |-> c]
         ELSE [robot |-> [robot EXCEPT !.cible = NoneV, !.etat = "Retourner"],
               carte |-> c]

\* Collecteur / Explorer, second part: one step towards the target and the
\* pickup on arrival. [robot, carte] after it.
collecteur_chercher(c, robot) ==
  IF robot.cible = NoneV THEN [robot |-> robot, carte |-> c]
  ELSE
    LET cx == Unwrap(robot.cible)[1]
        cy == Unwrap(robot.cible)[2]
        chemin == calculer_chemin_bfs(c, <<robot.x, robot.y>>, <<cx, cy>>)
    IN IF IsSome(chemin)
         THEN LET avance == avancer_vers(c, robot, <<cx, cy>>)
              IN IF avance.x = cx /\ avance.y = cy
                   THEN IF c.donnees[cy][cx] = resource_filtre(robot)
                          THEN [robot |-> [avance EXCEPT
                                             !.cargo = Some(<<c.donnees[cy][cx], cx, cy>>),
                                             !.cible = NoneV, !.etat = "Retourner"],
                                carte |-> [c EXCEPT !.donnees[cy][cx] = "Vide"]]
                          ELSE [robot |-> [avance EXCEPT !.cible = NoneV,
                                                         !.etat = "Retourner"],
                                carte |-> c]
                   ELSE [robot |-> avance, carte |-> c]
         ELSE [robot |-> [robot EXCEPT !.cible = NoneV, !.etat = "Retourner"],
               carte |-> c]

\* Faulty variant: the stock is reset to 0 only once it exceeds 3.
deposer_seuil_decale(d, resource) ==
  IF resource = "Energie"
    THEN IF d.stock_energie + 1 > 3
           THEN [depot |-> [d EXCEPT !.stock_energie = 0], module |-> Some("Forage")]
           ELSE [depot |-> [d EXCEPT !.stock_energie = @ + 1], module |-> NoneV]
  ELSE IF resource = "Minerai"
    THEN IF d.stock_minerai + 1 > 3
           THEN [depot |-> [d EXCEPT !.stock_minerai = 0],
                 module |-> Some("AnalyseChimique")]
           ELSE [depot |-> [d EXCEPT !.stock_minerai = @ + 1], module |-> NoneV]
  ELSE [depot |-> d, module |-> NoneV]

\* Faulty variant: a deposit counts for two units.
deposer_double(d, resource) ==
  IF resource = "Energie"
    THEN IF d.stock_energie + 2 >= 3
           THEN [depot |-> [d EXCEPT !.stock_energie = @ + 2 - 3],
                 module |-> Some("Forage")]
           ELSE [depot |-> [d EXCEPT !.stock_energie = @ + 2], module |-> NoneV]
  ELSE IF resource = "Minerai"
    THEN IF d.stock_minerai + 2 >= 3
           THEN [depot |-> [d EXCEPT !.stock_minerai = @ + 2 - 3],
                 module |-> Some("AnalyseChimique")]
           ELSE [depot |-> [d EXCEPT !.stock_minerai = @ + 2], module |-> NoneV]
  ELSE [depot |-> d, module |-> NoneV]

\* match resource { Energie => .., Minerai => .., _ => {} }: the depot after
\* the deposit and the module of the collector to create, if any.
deposer(d, resource) ==
  IF resource = "Energie"
    THEN IF d.stock_energie + 1 >= 3
           THEN [depot |-> [d EXCEPT !.stock_energie = @ + 1 - 3],
                 module |-> Some("Forage")]
           ELSE [depot |-> [d EXCEPT !.stock_energie = @ + 1], module |-> NoneV]
  ELSE IF resource = "Minerai"
    THEN IF d.stock_minerai + 1 >= 3
           THEN [depot |-> [d EXCEPT !.stock_minerai = @ + 1 - 3],
                 module |-> Some("AnalyseChimique")]
           ELSE [depot |-> [d EXCEPT !.stock_minerai = @ + 1], module |-> NoneV]
  ELSE [depot |-> d, module |-> NoneV]

\* Faulty variant: the Collector keeps its cargo after the deposit.
collecteur_retourner_garde_cargo(c, st, d, robot) ==
  IF robot.x = st.x /\ robot.y = st.y
    THEN IF IsSome(robot.cargo)
           THEN LET depose == deposer(d, Unwrap(robot.cargo)[1])
                IN [robot |-> [robot EXCEPT !.etat = "Explorer"],
                    depot |-> depose.depot,
                    cree |-> IF IsSome(depose.module)
                               THEN <<creer_collecteur(st, Unwrap(depose.module))>>
                               ELSE <<>>]
           ELSE [robot |-> [robot EXCEPT !.etat = "Explorer"], depot |-> d, cree |-> <<>>]
    ELSE [robot |-> avancer_vers(c, robot, <<st.x, st.y>>), depot |-> d, cree |-> <<>>]

\* Faulty variant: a Collector on its way back takes up state Explorer after
\* its first step.
collecteur_retourner_explore_en_route(c, st, d, robot) ==
  IF robot.x = st.x /\ robot.y = st.y
    THEN IF IsSome(robot.cargo)
           THEN LET depose == deposer(d, Unwrap(robot.cargo)[1])
                IN [robot |-> [robot EXCEPT !.cargo = NoneV, !.etat = "Explorer"],
                    depot |-> depose.depot,
                    cree |-> IF IsSome(depose.module)
                               THEN <<creer_collecteur(st, Unwrap(depose.module))>>
                               ELSE <<>>]
           ELSE [robot |-> [robot EXCEPT !.etat = "Explorer"], depot |-> d, cree |-> <<>>]
    ELSE [robot |-> [avancer_vers(c, robot, <<st.x, st.y>>) EXCEPT !.etat = "Explorer"],
          depot |-> d, cree |-> <<>>]

\* Collecteur / Retourner: [robot, depot, cree], cree being the robots handed
\* to commandes.spawn.
collecteur_retourner(c, st, d, robot) ==
  IF robot.x = st.x /\ robot.y = st.y
    THEN IF IsSome(robot.cargo)
           THEN LET depose == deposer(d, Unwrap(robot.cargo)[1])
                IN [robot |-> [robot EXCEPT !.cargo = NoneV, !.etat = "Explorer"],
                    depot |-> depose.depot,
                    cree |-> IF IsSome(depose.module)
                               THEN <<creer_collecteur(st, Unwrap(depose.module))>>
                               ELSE <<>>]
           ELSE [robot |-> [robot EXCEPT !.etat = "Explorer"], depot |-> d, cree |-> <<>>]
    ELSE [robot |-> avancer_vers(c, robot, <<st.x, st.y>>), depot |-> d, cree |-> <<>>]

(***************************************************************************)
(* State.                                                                  *)
(***************************************************************************)
VARIABLES
  carte,         \* Carte resource: donnees, largeur, hauteur
  station,       \* PositionStation resource: x, y
  depot,         \* DepotStation resource: decouvertes, stock_energie, stock_minerai
  robots,        \* the Robot components, in the order the query iterates them
  robots_crees,  \* RobotsCrees resource
  commandes,     \* Robot components spawned through Commands, not yet applied
  curseur,       \* index in robots of the next robot of the running pass
  nb_depots,     \* history: deposits made so far, per resource
  nb_crees,      \* history: collectors created so far, per module
  appel          \* the call of a function under test: its name, arguments and result

vars == <<carte, station, depot, robots, robots_crees, commandes, curseur,
          nb_depots, nb_crees, appel>>

\* The simulation state as it is when only a function is under test.
simulation == <<station, robots, robots_crees, commandes, curseur, nb_depots, nb_crees>>

AucunDepot == [r \in {"Energie", "Minerai"} |-> 0]
AucunCree == [mo \in {"Forage", "AnalyseChimique"} |-> 0]

SansSimulation ==
  /\ station = [x |-> 0, y |-> 0]
  /\ robots = <<>>
  /\ robots_crees = FALSE
  /\ commandes = <<>>
  /\ curseur = 1
  /\ nb_depots = AucunDepot
  /\ nb_crees = AucunCree

AucunAppel == [fn |-> "aucun"]

(***************************************************************************)
(* SpecBfs: calculer_chemin_bfs applied to every bounded grid and pair of  *)
(* positions, in bounds or one cell outside.                               *)
(***************************************************************************)
Dimensions(maxCellules) ==
  {d \in (1..maxCellules) \X (1..maxCellules) : d[1] * d[2] <= maxCellules}

\* Every largeur x hauteur grid of Vide cells with the cells of obs Obstacle.
CarteObstacles(largeur, hauteur, obs) ==
  MkCarte([y \in 0..(hauteur - 1) |->
             [x \in 0..(largeur - 1) |->
                IF <<x, y>> \in obs THEN "Obstacle" ELSE "Vide"]],
          largeur, hauteur)

SousEnsembles(S, n) == {T \in SUBSET S : Cardinality(T) <= n}

CartesBfs ==
  UNION {{CarteObstacles(d[1], d[2], obs) :
            obs \in SousEnsembles((0..(d[1] - 1)) \X (0..(d[2] - 1)), MaxObstaclesBfs)} :
         d \in Dimensions(MaxCellulesBfs)}

\* Positions of the grid and of the ring one cell around it.
PositionsAutour(c) == ((-1)..c.largeur) \X ((-1)..c.hauteur)

InitBfs ==
  /\ carte \in CartesBfs
  /\ depot = DepotInitial
  /\ SansSimulation
  /\ appel = AucunAppel

AppelBfs ==
  /\ appel.fn = "aucun"
  /\ \E depart \in PositionsAutour(carte), arrivee \in PositionsAutour(carte) :
       LET e == bfs_execution(carte, depart, arrivee)
       IN appel' = [fn |-> "calculer_chemin_bfs", depart |-> depart,
                    arrivee |-> arrivee, ret |-> e.ret, pops |-> e.pops]
  /\ UNCHANGED <<carte, depot, simulation>>

NextBfs == AppelBfs

SpecBfs == InitBfs /\ [][NextBfs]_vars

(***************************************************************************)
(* Properties of calculer_chemin_bfs (checked under SpecBfs).              *)
(***************************************************************************)
Abs(n) == IF n < 0 THEN -n ELSE n
Adjacent(p, q) == Abs(p[1] - q[1]) + Abs(p[2] - q[2]) = 1
Manhattan(p, q) == Abs(p[1] - q[1]) + Abs(p[2] - q[2])
Libre(c, p) == ~est_obstacle(c, p[1], p[2])
CellulesLibres(c) == {p \in Cellules(c) : Libre(c, p)}

\* Length of a shortest 4-connected route of non-Obstacle cells, by growing
\* the set of cells reached level by level; -1 when there is none.
RECURSIVE DistanceDepuis(_, _, _, _, _)
DistanceDepuis(c, front, vus, arrivee, n) ==
  IF arrivee \in front THEN n
  ELSE IF front = {} THEN -1
  ELSE LET suivants == {q \in CellulesLibres(c) \ vus : \E p \in front : Adjacent(p, q)}
       IN DistanceDepuis(c, suivants, vus \cup suivants, arrivee, n + 1)

DistanceMin(c, depart, arrivee) == DistanceDepuis(c, {depart}, {depart}, arrivee, 0)

AppelBfsFait == appel.fn = "calculer_chemin_bfs"

\* C1: a path returned for depart # arrivee starts at depart, ends at
\* arrivee, moves by 4-adjacent steps over in-bounds non-Obstacle cells only,
\* and has the minimum number of steps (5 positions from (0,0) to (2,2) on
\* the obstacle-free 3x3 grid).
C1_CheminValideEtMinimal ==
  (AppelBfsFait /\ appel.depart # appel.arrivee /\ IsSome(appel.ret)) =>
    LET chemin == Unwrap(appel.ret)
    IN /\ Len(chemin) >= 2
       /\ chemin[1] = appel.depart
       /\ chemin[Len(chemin)] = appel.arrivee
       /\ \A i \in 1..(Len(chemin) - 1) : Adjacent(chemin[i], chemin[i + 1])
       /\ \A i \in 1..Len(chemin) : Libre(carte, chemin[i])
       /\ Len(chemin) - 1 = DistanceMin(carte, appel.depart, appel.arrivee)
       /\ (/\ carte.largeur = 3 /\ carte.hauteur = 3
           /\ CellulesLibres(carte) = Cellules(carte)
           /\ appel.depart = <<0, 0>> /\ appel.arrivee = <<2, 2>>) => Len(chemin) = 5

\* A returned path that has to go around obstacles: longer than the
\* Manhattan distance.
C1_Witness ==
  /\ AppelBfsFait /\ appel.depart # appel.arrivee /\ IsSome(appel.ret)
  /\ Len(Unwrap(appel.ret)) - 1 > Manhattan(appel.depart, appel.arrivee)

\* C2: for free in-bounds depart and arrivee the result is None exactly when
\* no route of non-Obstacle cells joins them, and the search loop ends after
\* at most one iteration per free cell.
C2_NoneSsiInatteignable ==
  (AppelBfsFait /\ Libre(carte, appel.depart) /\ Libre(carte, appel.arrivee)) =>
    /\ (appel.ret = NoneV) <=> (DistanceMin(carte, appel.depart, appel.arrivee) = -1)
    /\ appel.pops <= Cardinality(CellulesLibres(carte))

\* None returned for a free arrivee that obstacles enclose, after a search
\* that explored a region of more than one cell.
C2_Witness ==
  /\ AppelBfsFait /\ Libre(carte, appel.depart) /\ Libre(carte, appel.arrivee)
  /\ appel.ret = NoneV
  /\ appel.pops >= 2
  /\ \A q \in Cellules(carte) : Adjacent(q, appel.arrivee) => ~Libre(carte, q)

\* C3 as stated: None whenever depart or arrivee is an Obstacle or outside
\* the grid, whether or not they are equal.
C3_NoneSiObstacle ==
  (AppelBfsFait /\ (~Libre(carte, appel.depart) \/ ~Libre(carte, appel.arrivee))) =>
    appel.ret = NoneV

\* C3 amended: None whenever depart # arrivee and one of them is an Obstacle
\* or outside the grid; for depart = arrivee the result is the one-element
\* path, Obstacle or not.
C3_NoneSiObstacleEtDistincts ==
  AppelBfsFait =>
    /\ (appel.depart # appel.arrivee
        /\ (~Libre(carte, appel.depart) \/ ~Libre(carte, appel.arrivee)))
         => (appel.ret = NoneV /\ appel.pops = 0)
    /\ appel.depart = appel.arrivee => appel.ret = Some(<<appel.depart>>)

\* Both cases: None for a blocked arrivee, and a call with equal positions
\* on an Obstacle cell.
C3_Witness ==
  /\ AppelBfsFait
  /\ appel.depart = appel.arrivee
  /\ appel.depart \in Cellules(carte)
  /\ ~Libre(carte, appel.depart)

(***************************************************************************)
(* SpecLimiter: limiter_taille_obstacles applied in place to every bounded *)
(* grid of Vide and Obstacle cells, as generer_carte calls it.             *)
(***************************************************************************)
InitLimiter ==
  /\ \E d \in Dimensions(MaxCellulesLimiter) :
       \E g \in [0..(d[2] - 1) -> [0..(d[1] - 1) -> {"Vide", "Obstacle"}]] :
         carte = MkCarte(g, d[1], d[2])
  /\ depot = DepotInitial
  /\ SansSimulation
  /\ appel = AucunAppel

\* One call; avant keeps the grid as it was before the call and origine the
\* grid before the first call.
AppelLimiter ==
  /\ \/ appel.fn = "aucun"
     \/ appel.fn = "limiter_taille_obstacles" /\ appel.passes < MaxPasses
  /\ carte' = [carte EXCEPT !.donnees = limiter_taille_obstacles(@)]
  /\ appel' = [fn |-> "limiter_taille_obstacles",
               avant |-> carte.donnees,
               origine |-> IF appel.fn = "aucun" THEN carte.donnees ELSE appel.origine,
               passes |-> IF appel.fn = "aucun" THEN 1 ELSE appel.passes + 1]
  /\ UNCHANGED <<depot, simulation>>

NextLimiter == AppelLimiter

SpecLimiter == InitLimiter /\ [][NextLimiter]_vars

(***************************************************************************)
(* Properties of limiter_taille_obstacles (checked under SpecLimiter).     *)
(***************************************************************************)
AppelLimiterFait == appel.fn = "limiter_taille_obstacles"

EstObstacle(donnees, largeur, hauteur, p) ==
  /\ p[1] >= 0 /\ p[1] < largeur /\ p[2] >= 0 /\ p[2] < hauteur
  /\ donnees[p[2]][p[1]] = "Obstacle"

\* Number of contiguous Obstacle cells from p (included) along d.
RECURSIVE Course(_, _, _, _, _)
Course(donnees, largeur, hauteur, p, d) ==
  IF EstObstacle(donnees, largeur, hauteur, p)
    THEN 1 + Course(donnees, largeur, hauteur, <<p[1] + d[1], p[2] + d[2]>>, d)
    ELSE 0

\* Longest horizontal or vertical run of Obstacle cells of the grid.
PlusLongueCourse(donnees, largeur, hauteur) ==
  LET courses == {Course(donnees, largeur, hauteur, p, d) :
                    p \in (0..(largeur - 1)) \X (0..(hauteur - 1)),
                    d \in {<<1, 0>>, <<0, 1>>}}
  IN CHOOSE m \in courses \cup {0} : \A n \in courses : n <= m

\* Size of the cross of Obstacle cells centred on p: p and its four arms.
Croix(donnees, largeur, hauteur, p) ==
  1 + Course(donnees, largeur, hauteur, <<p[1], p[2] + 1>>, <<0, 1>>)
    + Course(donnees, largeur, hauteur, <<p[1] + 1, p[2]>>, <<1, 0>>)
    + Course(donnees, largeur, hauteur, <<p[1], p[2] - 1>>, <<0, -1>>)
    + Course(donnees, largeur, hauteur, <<p[1] - 1, p[2]>>, <<-1, 0>>)

PlusGrandeCroix(donnees, largeur, hauteur) ==
  LET croix == {Croix(donnees, largeur, hauteur, p) :
                  p \in {q \in (0..(largeur - 1)) \X (0..(hauteur - 1)) :
                           donnees[q[2]][q[1]] = "Obstacle"}}
  IN CHOOSE m \in croix \cup {0} : \A n \in croix : n <= m

\* C9: after limiter_taille_obstacles no horizontal or vertical run of
\* contiguous Obstacle cells is longer than TAILLE_MAX_OBSTACLE.
C9_CoursesBornees ==
  AppelLimiterFait =>
    PlusLongueCourse(carte.donnees, carte.largeur, carte.hauteur) <= TAILLE_MAX_OBSTACLE

\* A first call on a grid that held a longer run, which left a run of exactly
\* TAILLE_MAX_OBSTACLE cells.
C9_Witness ==
  /\ AppelLimiterFait /\ appel.passes = 1
  /\ PlusLongueCourse(appel.avant, carte.largeur, carte.hauteur) > TAILLE_MAX_OBSTACLE
  /\ PlusLongueCourse(carte.donnees, carte.largeur, carte.hauteur) = TAILLE_MAX_OBSTACLE

\* C10 as stated: the count is per direction, so a grid in which no
\* axis-aligned run exceeds TAILLE_MAX_OBSTACLE is returned unchanged.
C10_InchangeeSiCoursesBornees ==
  (AppelLimiterFait
   /\ PlusLongueCourse(appel.avant, carte.largeur, carte.hauteur) <= TAILLE_MAX_OBSTACLE)
    => carte.donnees = appel.avant

\* C10 amended: the count starts at 1 on the starting cell and is carried
\* across its four directions, so the grid is returned unchanged exactly when
\* no Obstacle cell has a cross (itself plus its four arms of contiguous
\* Obstacle cells) of more than TAILLE_MAX_OBSTACLE cells.
C10_InchangeeSsiCroixBornees ==
  AppelLimiterFait =>
    ((carte.donnees = appel.avant)
       <=> (PlusGrandeCroix(appel.avant, carte.largeur, carte.hauteur)
              <= TAILLE_MAX_OBSTACLE))

\* An L-shaped blob with both arms within the limit that the call trimmed.
C10_Witness ==
  /\ AppelLimiterFait /\ appel.passes = 1
  /\ PlusLongueCourse(appel.avant, carte.largeur, carte.hauteur) <= TAILLE_MAX_OBSTACLE
  /\ PlusGrandeCroix(appel.avant, carte.largeur, carte.hauteur) > TAILLE_MAX_OBSTACLE
  /\ carte.donnees # appel.avant

\* Number of cells of the grid holding the tile t.
NbTuiles(donnees, largeur, hauteur, t) ==
  Cardinality({p \in (0..(largeur - 1)) \X (0..(hauteur - 1)) : donnees[p[2]][p[1]] = t})

\* A single row of more than TAILLE_MAX_OBSTACLE cells, all Obstacle.
LigneObstacles(donnees, largeur, hauteur) ==
  /\ hauteur = 1
  /\ largeur > TAILLE_MAX_OBSTACLE
  /\ NbTuiles(donnees, largeur, hauteur, "Obstacle") = largeur

\* C11: applied to a single row of N > TAILLE_MAX_OBSTACLE cells that are all
\* Obstacle, limiter_taille_obstacles leaves at most TAILLE_MAX_OBSTACLE
\* Obstacle cells and at least N - TAILLE_MAX_OBSTACLE Vide cells, so strictly
\* fewer Obstacle cells than before (for N = 7: at most 5 and at least 2).
C11_LigneLimitee ==
  (AppelLimiterFait /\ appel.passes = 1
   /\ LigneObstacles(appel.avant, carte.largeur, carte.hauteur)) =>
    /\ NbTuiles(carte.donnees, carte.largeur, carte.hauteur, "Obstacle")
         <= TAILLE_MAX_OBSTACLE
    /\ NbTuiles(carte.donnees, carte.largeur, carte.hauteur, "Vide")
         >= carte.largeur - TAILLE_MAX_OBSTACLE
    /\ NbTuiles(carte.donnees, carte.largeur, carte.hauteur, "Obstacle")
         < NbTuiles(appel.avant, carte.largeur, carte.hauteur, "Obstacle")

\* The row of 7 Obstacle cells after the call: 5 Obstacle and 2 Vide cells.
C11_Witness ==
  /\ AppelLimiterFait /\ appel.passes = 1
  /\ LigneObstacles(appel.avant, carte.largeur, carte.hauteur)
  /\ carte.largeur = 7
  /\ NbTuiles(carte.donnees, carte.largeur, carte.hauteur, "Obstacle") = 5
  /\ NbTuiles(carte.donnees, carte.largeur, carte.hauteur, "Vide") = 2

(***************************************************************************)
(* SpecCarte: Carte::est_obstacle applied to every bounded grid of any     *)
(* tiles, at coordinates in the grid and up to two cells outside it.       *)
(***************************************************************************)
InitCarte ==
  /\ \E d \in Dimensions(MaxCellulesCarte) :
       \E g \in [0..(d[2] - 1) -> [0..(d[1] - 1) -> TypePixel]] :
         carte = MkCarte(g, d[1], d[2])
  /\ depot = DepotInitial
  /\ SansSimulation
  /\ appel = AucunAppel

AppelEstObstacle ==
  /\ appel.fn = "aucun"
  /\ \E x \in (-2)..(carte.largeur + 1), y \in (-2)..(carte.hauteur + 1) :
       appel' = [fn |-> "est_obstacle", x |-> x, y |-> y,
                 ret |-> est_obstacle(carte, x, y)]
  /\ UNCHANGED <<carte, depot, simulation>>

NextCarte == AppelEstObstacle

SpecCarte == InitCarte /\ [][NextCarte]_vars

(***************************************************************************)
(* Properties of est_obstacle (checked under SpecCarte).                   *)
(***************************************************************************)
AppelEstObstacleFait == appel.fn = "est_obstacle"

HorsLimites(c, x, y) == x < 0 \/ y < 0 \/ x >= c.largeur \/ y >= c.hauteur

\* C12: est_obstacle answers true for every coordinate outside the grid, and
\* inside the grid answers true exactly when the tile is Obstacle: Vide,
\* Energie, Minerai, SiteScientifique and Station tiles are not obstacles.
C12_ObstacleOuHorsLimites ==
  AppelEstObstacleFait =>
    /\ appel.ret \in BOOLEAN
    /\ HorsLimites(carte, appel.x, appel.y) => appel.ret = TRUE
    /\ ~HorsLimites(carte, appel.x, appel.y) =>
         (appel.ret <=> carte.donnees[appel.y][appel.x] = "Obstacle")
    /\ (/\ ~HorsLimites(carte, appel.x, appel.y)
        /\ carte.donnees[appel.y][appel.x]
             \in {"Vide", "Energie", "Minerai", "SiteScientifique", "Station"})
         => appel.ret = FALSE

\* The answer for the coordinate just past the right edge of a row whose
\* last cell is a Station: true outside, while the Station itself is not an
\* obstacle.
C12_Witness ==
  /\ AppelEstObstacleFait
  /\ appel.x = carte.largeur /\ appel.y = 0
  /\ carte.donnees[0][carte.largeur - 1] = "Station"
  /\ appel.ret = TRUE
  /\ ~est_obstacle(carte, carte.largeur - 1, 0)

(***************************************************************************)
(* SpecPlacer: placer_station applied to every bounded grid as             *)
(* generer_carte leaves it before the call (no Station yet); one step is   *)
(* one iteration of its loop. The draws are fair: a cell that can be drawn *)
(* is not avoided forever.                                                 *)
(***************************************************************************)
TuilesGenerees == TypePixel \ {"Station"}

InitPlacer ==
  /\ \E d \in Dimensions(MaxCellulesCarte) :
       \E g \in [0..(d[2] - 1) -> [0..(d[1] - 1) -> TuilesGenerees]] :
         carte = MkCarte(g, d[1], d[2])
  /\ depot = DepotInitial
  /\ SansSimulation
  /\ appel = AucunAppel

\* The iteration that draws p; avant keeps the grid as it was before the
\* call, tirage the coordinates last drawn.
TiragePlacer(p) ==
  /\ \/ appel.fn = "aucun"
     \/ appel.fn = "placer_station" /\ appel.ret = NoneV
  /\ p \in Cellules(carte)
  /\ LET t == placer_station_tirage(carte.donnees, p[1], p[2])
     IN /\ carte' = [carte EXCEPT !.donnees = t.donnees]
        /\ appel' = [fn |-> "placer_station",
                     avant |-> IF appel.fn = "aucun" THEN carte.donnees ELSE appel.avant,
                     tirage |-> p, ret |-> t.ret]
  /\ UNCHANGED <<depot, simulation>>

PositionsTirables == (0..MaxCellulesCarte) \X (0..MaxCellulesCarte)

NextPlacer == \E p \in PositionsTirables : TiragePlacer(p)

SpecPlacer ==
  InitPlacer /\ [][NextPlacer]_vars
  /\ \A p \in PositionsTirables : WF_vars(TiragePlacer(p))

(***************************************************************************)
(* Properties of placer_station (checked under SpecPlacer).                *)
(***************************************************************************)
PlacerRetourne == appel.fn = "placer_station" /\ IsSome(appel.ret)

\* The grid still to be searched holds a Vide cell.
VideDisponible ==
  NbTuiles(IF appel.fn = "placer_station" THEN appel.avant ELSE carte.donnees,
           carte.largeur, carte.hauteur, "Vide") > 0

PlacerCorrect ==
  /\ PlacerRetourne =>
       LET x == Unwrap(appel.ret)[1]
           y == Unwrap(appel.ret)[2]
       IN /\ x >= 0 /\ x < carte.largeur /\ y >= 0 /\ y < carte.hauteur
          /\ appel.avant[y][x] = "Vide"
          /\ carte.donnees[y][x] = "Station"
          /\ \A q \in Cellules(carte) :
               q # <<x, y>> => carte.donnees[q[2]][q[1]] = appel.avant[q[2]][q[1]]
          /\ NbTuiles(carte.donnees, carte.largeur, carte.hauteur, "Station") = 1
  /\ ~PlacerRetourne =>
       (appel.fn = "placer_station" => carte.donnees = appel.avant)
  /\ ~VideDisponible => ~PlacerRetourne

\* C13: on a grid with a Vide cell placer_station, its draws being fair,
\* returns after finitely many iterations the in-bounds coordinates of a cell
\* that was Vide before the call and is Station after it, no other cell
\* changed, so that the grid holds exactly one Station; on a grid without a
\* Vide cell it never returns.
C13_StationSurCaseVide ==
  /\ []PlacerCorrect
  /\ VideDisponible ~> PlacerRetourne

\* The call returned on a grid whose only Vide cell lay next to Obstacle
\* cells, which a draw can hit first.
C13_Witness ==
  /\ PlacerRetourne
  /\ NbTuiles(appel.avant, carte.largeur, carte.hauteur, "Vide") = 1
  /\ NbTuiles(appel.avant, carte.largeur, carte.hauteur, "Obstacle") >= 1
  /\ NbTuiles(carte.donnees, carte.largeur, carte.hauteur, "Station") = 1

(***************************************************************************)
(* SpecDepot: enregistrer_decouverte and the Collector's claim applied in  *)
(* any order to the ledger, over a row of cells holding any resources.     *)
(***************************************************************************)
InitDepot ==
  /\ \E g \in [0..0 -> [0..(MaxPositionsDepot - 1) -> {"Vide", "Energie", "Minerai"}]] :
       carte = MkCarte(g, MaxPositionsDepot, 1)
  /\ depot = DepotInitial
  /\ SansSimulation
  /\ appel = AucunAppel

AppelEnregistrer ==
  \E resource \in {"Energie", "Minerai"}, p \in Cellules(carte) :
    LET decouverte == MkDecouverte(resource, p[1], p[2])
    IN /\ depot' = enregistrer_decouverte(depot, decouverte)
       /\ appel' = [fn |-> "enregistrer_decouverte", decouverte |-> decouverte,
                    avant |-> depot, issue |-> enregistrer_issue(depot, decouverte)]
       /\ UNCHANGED <<carte, simulation>>

AppelReclamer ==
  \E filtre \in {"Energie", "Minerai"} :
    LET index == position_reclamable(depot, carte, filtre)
    IN /\ index # 0
       /\ depot' = [depot EXCEPT !.decouvertes = Retirer(@, index)]
       /\ appel' = [fn |-> "reclamer", filtre |-> filtre,
                    avant |-> depot, index |-> index]
       /\ UNCHANGED <<carte, simulation>>

NextDepot == AppelEnregistrer \/ AppelReclamer

SpecDepot == InitDepot /\ [][NextDepot]_vars

(***************************************************************************)
(* Properties of the ledger (checked under SpecDepot).                     *)
(***************************************************************************)
AppelEnregistrerFait == appel.fn = "enregistrer_decouverte"

EntreesEn(decouvertes, x, y) ==
  {i \in 1..Len(decouvertes) : decouvertes[i].x = x /\ decouvertes[i].y = y}

\* C4: after any sequence of enregistrer_decouverte calls and Collector
\* claims the ledger holds at most one entry per position.
C4_UneEntreeParPosition ==
  \A p \in Cellules(carte) :
    Cardinality(EntreesEn(depot.decouvertes, p[1], p[2])) <= 1

\* A claim that removed one entry from a ledger of three.
C4_Witness ==
  /\ appel.fn = "reclamer"
  /\ Len(appel.avant.decouvertes) = 3
  /\ Len(depot.decouvertes) = 2

DecouvertesPossibles ==
  {MkDecouverte(resource, p[1], p[2]) :
     resource \in {"Energie", "Minerai"}, p \in Cellules(carte)}

\* C5: a report whose position and resource are already in the ledger leaves
\* the ledger as it was, so reporting a discovery twice gives the same ledger
\* as reporting it once.
C5_DoublonSansEffet ==
  /\ (AppelEnregistrerFait
      /\ \E i \in 1..Len(appel.avant.decouvertes) :
           appel.avant.decouvertes[i] = appel.decouverte)
       => (depot = appel.avant /\ appel.issue = "deja_enregistree")
  /\ \A d \in DecouvertesPossibles :
       enregistrer_decouverte(enregistrer_decouverte(depot, d), d)
         = enregistrer_decouverte(depot, d)

\* A duplicate report made on a ledger of two entries.
C5_Witness ==
  /\ AppelEnregistrerFait /\ appel.issue = "deja_enregistree"
  /\ Len(depot.decouvertes) >= 2
  /\ depot = appel.avant

\* C6: a report whose position is in the ledger with another resource is a
\* conflict: it is reported as such and the ledger is left as it was.
C6_ConflitGardeExistante ==
  (AppelEnregistrerFait
   /\ \E i \in 1..Len(appel.avant.decouvertes) :
        /\ appel.avant.decouvertes[i].x = appel.decouverte.x
        /\ appel.avant.decouvertes[i].y = appel.decouverte.y
        /\ appel.avant.decouvertes[i].resource # appel.decouverte.resource)
    => (depot = appel.avant /\ appel.issue = "conflit")

\* A conflicting report made on a ledger of two entries.
C6_Witness ==
  /\ AppelEnregistrerFait /\ appel.issue = "conflit"
  /\ Len(depot.decouvertes) >= 2
  /\ \E i \in 1..Len(depot.decouvertes) :
       /\ depot.decouvertes[i].x = appel.decouverte.x
       /\ depot.decouvertes[i].y = appel.decouverte.y
       /\ depot.decouvertes[i].resource # appel.decouverte.resource

(***************************************************************************)
(* Spec: the simulation. creer_robots and deplacer_robots run as Update    *)
(* systems on a generated map; a pass of deplacer_robots updates the       *)
(* robots one after the other, and the robots spawned during the pass join *)
(* the query once the pass is over.                                        *)
(***************************************************************************)
\* A Carte from its rows, given top row (y = 0) first.
CarteDe(lignes) ==
  MkCarte([y \in 0..(Len(lignes) - 1) |->
             [x \in 0..(Len(lignes[1]) - 1) |-> lignes[y + 1][x + 1]]],
          Len(lignes[1]), Len(lignes))

\* The generated maps the simulation starts from: rows of resources around
\* the station, a map with an obstacle, one with a science site and an empty
\* cell, one whose resource lies behind an obstacle, and the map of a single
\* cell, where no robot can move.
CartesSimulation ==
  { CarteDe(<< <<"Station", "Energie", "Energie", "Energie", "Energie">> >>),
    CarteDe(<< <<"Minerai", "Minerai", "Station", "Minerai", "Energie">> >>),
    CarteDe(<< <<"Station", "Energie", "Minerai">>,
               <<"Energie", "Obstacle", "Minerai">> >>),
    CarteDe(<< <<"Energie", "Station", "Minerai">>,
               <<"SiteScientifique", "Obstacle", "Vide">> >>),
    CarteDe(<< <<"Station", "Energie", "Obstacle", "Minerai">> >>),
    CarteDe(<< <<"Station">> >>) }

PositionStationDe(c) ==
  LET p == CHOOSE q \in Cellules(c) : Tuile(c, q) = "Station"
  IN [x |-> p[1], y |-> p[2]]

Init ==
  /\ carte \in CartesSimulation
  /\ station = PositionStationDe(carte)
  /\ depot = DepotInitial
  /\ robots = <<>>
  /\ robots_crees = FALSE
  /\ commandes = <<>>
  /\ curseur = 1
  /\ nb_depots = AucunDepot
  /\ nb_crees = AucunCree
  /\ appel = AucunAppel

\* Faulty variant: creer_robots spawns the robots whatever RobotsCrees holds.
CreerRobotsSansGarde ==
  /\ curseur = 1
  /\ robots' = robots \o RobotsInitiaux(station)
  /\ robots_crees' = TRUE
  /\ UNCHANGED <<carte, station, depot, commandes, curseur, nb_depots, nb_crees, appel>>

\* creer_robots, between two passes of deplacer_robots.
CreerRobots ==
  /\ curseur = 1
  /\ IF robots_crees
       THEN UNCHANGED <<robots, robots_crees>>
       ELSE /\ robots' = robots \o RobotsInitiaux(station)
            /\ robots_crees' = TRUE
  /\ UNCHANGED <<carte, station, depot, commandes, curseur, nb_depots, nb_crees, appel>>

\* The end of the update of robot number curseur, now robot: the next robot
\* is up, or the pass is over and the spawned robots are added.
FinMiseAJour(robot, cree) ==
  IF curseur = Len(robots)
    THEN /\ robots' = [robots EXCEPT ![curseur] = robot] \o commandes \o cree
         /\ commandes' = <<>>
         /\ curseur' = 1
    ELSE /\ robots' = [robots EXCEPT ![curseur] = robot]
         /\ commandes' = commandes \o cree
         /\ curseur' = curseur + 1

RobotCourant(role, etat) ==
  /\ curseur <= Len(robots)
  /\ robots[curseur].role = role
  /\ robots[curseur].etat = etat

ExplorateurExplorer ==
  /\ RobotCourant("Explorateur", "Explorer")
  /\ LET robot == robots[curseur]
     IN \E nouveau \in destinations_explorateur(
                         carte, robot, robot.visites \cup {<<robot.x, robot.y>>}) :
          FinMiseAJour(explorateur_explorer(carte, robot, nouveau), <<>>)
  /\ UNCHANGED <<carte, station, depot, robots_crees, nb_depots, nb_crees, appel>>

ExplorateurRetourner ==
  /\ RobotCourant("Explorateur", "Retourner")
  /\ LET apres == explorateur_retourner(carte, station, depot, robots[curseur])
     IN /\ depot' = apres.depot
        /\ FinMiseAJour(apres.robot, <<>>)
  /\ UNCHANGED <<carte, station, robots_crees, nb_depots, nb_crees, appel>>

CollecteurExplorer ==
  /\ RobotCourant("Collecteur", "Explorer")
  /\ LET reclame == collecteur_reclamer(carte, station, depot, robots[curseur])
         cherche == collecteur_chercher(carte, reclame.robot)
     IN /\ depot' = reclame.depot
        /\ carte' = cherche.carte
        /\ FinMiseAJour(cherche.robot, <<>>)
  /\ UNCHANGED <<station, robots_crees, nb_depots, nb_crees, appel>>

CollecteurRetourner ==
  /\ RobotCourant("Collecteur", "Retourner")
  /\ LET robot == robots[curseur]
         apres == collecteur_retourner(carte, station, depot, robot)
         depose == robot.x = station.x /\ robot.y = station.y /\ IsSome(robot.cargo)
     IN /\ depot' = apres.depot
        /\ FinMiseAJour(apres.robot, apres.cree)
        /\ nb_depots' = IF depose /\ Unwrap(robot.cargo)[1] \in DOMAIN nb_depots
                          THEN [nb_depots EXCEPT ![Unwrap(robot.cargo)[1]] = @ + 1]
                          ELSE nb_depots
        /\ nb_crees' = IF apres.cree # <<>>
                         THEN [nb_crees EXCEPT ![apres.cree[1].modules[1]] = @ + 1]
                         ELSE nb_crees
  /\ UNCHANGED <<carte, station, robots_crees, appel>>

Next ==
  \/ CreerRobots
  \/ ExplorateurExplorer
  \/ ExplorateurRetourner
  \/ CollecteurExplorer
  \/ CollecteurRetourner

Spec == Init /\ [][Next]_vars

(***************************************************************************)
(* Properties of the deposits and of the collectors they create (checked   *)
(* under Spec).                                                            *)
(***************************************************************************)
TousLesRobots == robots \o commandes

NbCollecteurs(module) ==
  Cardinality({i \in 1..Len(TousLesRobots) :
                 /\ TousLesRobots[i].role = "Collecteur"
                 /\ TousLesRobots[i].modules = <<module>>})

\* C7: after n deposits of a resource its stock is n mod 3 (so within 0..2)
\* and floor(n / 3) collectors were created because of it, each one an extra
\* collector of the other module.
C7_StockModuloTrois ==
  /\ depot.stock_energie = nb_depots["Energie"] % 3
  /\ depot.stock_minerai = nb_depots["Minerai"] % 3
  /\ depot.stock_energie \in 0..2 /\ depot.stock_minerai \in 0..2
  /\ nb_crees["Forage"] = nb_depots["Energie"] \div 3
  /\ nb_crees["AnalyseChimique"] = nb_depots["Minerai"] \div 3
  /\ robots_crees =>
       /\ NbCollecteurs("Forage") = nb_collecteurs_forage + nb_depots["Energie"] \div 3
       /\ NbCollecteurs("AnalyseChimique")
            = nb_collecteurs_analyse + nb_depots["Minerai"] \div 3

\* Four deposits of Energie made: one collector created, one unit in stock.
C7_Witness ==
  /\ nb_depots["Energie"] = 4
  /\ depot.stock_energie = 1
  /\ NbCollecteurs("Forage") = nb_collecteurs_forage + 1

\* The robots created by the step, and the robots that were waiting in
\* commandes as they are after the step.
CreesParLePas ==
  IF curseur = Len(robots)
    THEN SubSeq(robots', Len(robots) + Len(commandes) + 1, Len(robots'))
    ELSE SubSeq(commandes', Len(commandes) + 1, Len(commandes'))

EnAttenteApresLePas ==
  IF curseur = Len(robots)
    THEN SubSeq(robots', Len(robots) + 1, Len(robots) + Len(commandes))
    ELSE SubSeq(commandes', 1, Len(commandes))

CollecteurNeuf(module) ==
  [x |-> station.x, y |-> station.y, etat |-> "Explorer", role |-> "Collecteur",
   decouvertes |-> <<>>, cargo |-> NoneV, cible |-> NoneV, visites |-> {},
   modules |-> <<module>>]

SeuilAtteint(resource) ==
  /\ nb_depots'[resource] = nb_depots[resource] + 1
  /\ nb_depots'[resource] % 3 = 0

\* C8: the update of a robot creates a robot only when a deposit brings a
\* stock to the threshold, and then exactly one: a Collecteur with the module
\* of the other resource (Forage for Energie, AnalyseChimique for Minerai),
\* at the station, in state Explorer, without cargo, target, discoveries or
\* visited cells; it joins the query unchanged at the end of the pass.
C8_CollecteurCreeComplementaire ==
  [][(curseur <= Len(robots)) =>
       /\ Len(CreesParLePas)
            = (IF SeuilAtteint("Energie") \/ SeuilAtteint("Minerai") THEN 1 ELSE 0)
       /\ SeuilAtteint("Energie") => CreesParLePas = <<CollecteurNeuf("Forage")>>
       /\ SeuilAtteint("Minerai") => CreesParLePas = <<CollecteurNeuf("AnalyseChimique")>>
       /\ EnAttenteApresLePas = commandes]_vars

\* A collector created by the third deposit of Minerai has just joined the
\* query.
C8_Witness ==
  /\ nb_depots["Minerai"] = 3
  /\ curseur = 1
  /\ Len(robots) > nb_explorateurs + nb_collecteurs_analyse + nb_collecteurs_forage
  /\ robots[Len(robots)] = CollecteurNeuf("AnalyseChimique")

(***************************************************************************)
(* Properties of the update of one robot (checked under Spec). In a step   *)
(* of deplacer_robots the robot updated is robots[curseur] before the step *)
(* and robots'[curseur] after it.                                          *)
(***************************************************************************)
PasDeRobot == curseur <= Len(robots)

RobotAvant == robots[curseur]

RobotApres == robots'[curseur]

Position(robot) == <<robot.x, robot.y>>

SurLaStation(robot) == robot.x = station.x /\ robot.y = station.y

UneSeuleStation ==
  NbTuiles(carte.donnees, carte.largeur, carte.hauteur, "Station") = 1

\* The target the Collector updated had when it moved: the one it held, or
\* the one it took from the ledger in this step.
CibleDuPas ==
  IF IsSome(RobotAvant.cible) THEN RobotAvant.cible
  ELSE IF Len(depot'.decouvertes) < Len(depot.decouvertes)
    THEN LET i == CHOOSE j \in 1..Len(depot.decouvertes) :
                    depot'.decouvertes = Retirer(depot.decouvertes, j)
         IN Some(<<depot.decouvertes[i].x, depot.decouvertes[i].y>>)
    ELSE NoneV

\* C14: the grid changes only in the update of a Collecteur in state
\* Explorer that arrives on its target: one Energie or Minerai tile, the
\* target, becomes Vide and is the cargo; no other tile changes (so Obstacle,
\* Station and SiteScientifique tiles never change, no Vide tile is filled,
\* an Explorateur changes nothing and a tile walked over is left as it is).
\* Every reachable grid holds exactly one Station tile.
C14_GrilleChangeeParRamassage ==
  /\ []UneSeuleStation
  /\ [][(carte' # carte) =>
         /\ PasDeRobot
         /\ RobotAvant.role = "Collecteur" /\ RobotAvant.etat = "Explorer"
         /\ carte'.largeur = carte.largeur /\ carte'.hauteur = carte.hauteur
         /\ LET p == Position(RobotApres)
            IN /\ CibleDuPas = Some(p)
               /\ Tuile(carte, p) \in {"Energie", "Minerai"}
               /\ Tuile(carte', p) = "Vide"
               /\ RobotApres.cargo = Some(<<Tuile(carte, p), p[1], p[2]>>)
               /\ \A q \in Cellules(carte) :
                    q # p => Tuile(carte', q) = Tuile(carte, q)]_vars

\* A Collecteur on its way stands on a resource tile that is not its target,
\* the tile still there, while another tile of the map was picked up.
C14_Witness ==
  /\ \E i \in 1..Len(robots) :
       /\ robots[i].role = "Collecteur"
       /\ IsSome(robots[i].cible)
       /\ Unwrap(robots[i].cible) # Position(robots[i])
       /\ Tuile(carte, Position(robots[i])) \in {"Energie", "Minerai"}
  /\ carte \notin CartesSimulation

\* The in-bounds non-Obstacle 4-neighbours of a cell.
VoisinsAccessibles(p) ==
  {q \in Cellules(carte) : Adjacent(p, q) /\ Tuile(carte, q) # "Obstacle"}

PasExplorateurExplorer ==
  /\ PasDeRobot
  /\ RobotAvant.role = "Explorateur" /\ RobotAvant.etat = "Explorer"

\* C15: the update of an Explorateur in state Explorer adds its current
\* position to its visited set, then moves it to an in-bounds non-Obstacle
\* 4-neighbour; the neighbour is an already visited one only if all such
\* neighbours are visited, and the robot stays in place only if it has no
\* such neighbour.
C15_ExplorateurPrefereNonVisite ==
  [][PasExplorateurExplorer =>
       LET depuis == Position(RobotAvant)
           vers == Position(RobotApres)
       IN /\ RobotApres.visites = RobotAvant.visites \cup {depuis}
          /\ IF VoisinsAccessibles(depuis) = {}
               THEN vers = depuis
               ELSE vers \in VoisinsAccessibles(depuis)
          /\ vers \in RobotApres.visites =>
               VoisinsAccessibles(depuis) \subseteq RobotApres.visites]_vars

\* An Explorateur moved back onto a cell it had visited, all the neighbours
\* of the cell it left being visited.
C15_Witness ==
  \E i \in 1..Len(robots) :
    /\ robots[i].role = "Explorateur" /\ robots[i].etat = "Explorer"
    /\ Position(robots[i]) \in robots[i].visites
    /\ Cardinality(robots[i].visites) >= 3
    /\ Cardinality(Cellules(carte)) > 1

Explorateurs == {i \in 1..Len(robots) : robots[i].role = "Explorateur"}

\* The pending list holds Energie and Minerai entries only, at most one per
\* position, each at a cell that held the recorded resource and since then
\* at most lost it.
ListeSansDoublon(decouvertes) ==
  /\ \A i, j \in 1..Len(decouvertes) :
       (decouvertes[i].x = decouvertes[j].x /\ decouvertes[i].y = decouvertes[j].y)
         => i = j
  /\ \A i \in 1..Len(decouvertes) :
       /\ decouvertes[i].resource \in {"Energie", "Minerai"}
       /\ <<decouvertes[i].x, decouvertes[i].y>> \in Cellules(carte)
       /\ Tuile(carte, <<decouvertes[i].x, decouvertes[i].y>>)
            \in {decouvertes[i].resource, "Vide"}

\* C16: the update of an Explorateur in state Explorer appends a discovery
\* exactly when the cell it moved onto holds Energie or Minerai and its list
\* holds no entry at that position; the entry is that position with the tile
\* read there. So a pending list never holds two entries at one position and
\* holds Energie and Minerai entries only.
C16_DecouverteAjouteeUneFois ==
  /\ [](\A i \in Explorateurs : ListeSansDoublon(robots[i].decouvertes))
  /\ [][PasExplorateurExplorer =>
         LET vers == Position(RobotApres)
             tuile == Tuile(carte, vers)
             deja_trouve == \E i \in 1..Len(RobotAvant.decouvertes) :
                               /\ RobotAvant.decouvertes[i].x = vers[1]
                               /\ RobotAvant.decouvertes[i].y = vers[2]
         IN IF tuile \in {"Energie", "Minerai"} /\ ~deja_trouve
              THEN RobotApres.decouvertes
                     = Append(RobotAvant.decouvertes,
                              [resource |-> tuile, x |-> vers[1], y |-> vers[2]])
              ELSE RobotApres.decouvertes = RobotAvant.decouvertes]_vars

\* An Explorateur is back on a resource cell it had visited, its list
\* holding the one entry of that cell.
C16_Witness ==
  \E i \in Explorateurs :
    /\ robots[i].etat = "Explorer"
    /\ Position(robots[i]) \in robots[i].visites
    /\ Tuile(carte, Position(robots[i])) \in {"Energie", "Minerai"}
    /\ Len(robots[i].decouvertes) = 1
    /\ Position(robots[i]) = <<robots[i].decouvertes[1].x, robots[i].decouvertes[1].y>>

\* C17: an Explorateur passes from Explorer to Retourner exactly in the
\* update that brings its pending list to 2 entries. So in every reachable
\* state its list holds at most 2 entries: exactly 2 in state Retourner, at
\* most 1 in state Explorer.
C17_RetourADeuxDecouvertes ==
  /\ [](\A i \in Explorateurs :
          /\ Len(robots[i].decouvertes) <= 2
          /\ robots[i].etat = "Retourner" => Len(robots[i].decouvertes) = 2
          /\ robots[i].etat = "Explorer" => Len(robots[i].decouvertes) <= 1)
  /\ [][(PasDeRobot /\ RobotAvant.role = "Explorateur") =>
         ((RobotAvant.etat = "Explorer" /\ RobotApres.etat = "Retourner")
            <=> (/\ RobotAvant.etat = "Explorer"
                 /\ Len(RobotAvant.decouvertes) < 2
                 /\ Len(RobotApres.decouvertes) = 2))]_vars

\* An Explorateur away from the station in state Retourner, its two
\* discoveries pending.
C17_Witness ==
  \E i \in Explorateurs :
    /\ robots[i].etat = "Retourner"
    /\ Len(robots[i].decouvertes) = 2
    /\ ~SurLaStation(robots[i])

\* enregistrer_decouverte applied to the entries of a list, first to last.
RECURSIVE EnregistrerDansLOrdre(_, _)
EnregistrerDansLOrdre(d, liste) ==
  IF liste = <<>> THEN d
  ELSE EnregistrerDansLOrdre(enregistrer_decouverte(d, Head(liste)), Tail(liste))

PasExplorateurRetourner ==
  /\ PasDeRobot
  /\ RobotAvant.role = "Explorateur" /\ RobotAvant.etat = "Retourner"

\* C18: the update of an Explorateur in state Retourner that stands on the
\* station registers its pending discoveries with enregistrer_decouverte in
\* list order, empties its list and sets its state to Explorer, without
\* moving it; away from the station, when a path exists, it moves the robot
\* to the second position of the BFS path, one cell away, and changes
\* neither its list, its state nor the depot.
C18_RetourExplorateur ==
  [][PasExplorateurRetourner =>
       IF SurLaStation(RobotAvant)
         THEN /\ depot' = EnregistrerDansLOrdre(depot, RobotAvant.decouvertes)
              /\ RobotApres = [RobotAvant EXCEPT !.decouvertes = <<>>,
                                                 !.etat = "Explorer"]
         ELSE LET chemin == calculer_chemin_bfs(
                              carte, Position(RobotAvant), <<station.x, station.y>>)
              IN IsSome(chemin) =>
                   /\ Len(Unwrap(chemin)) > 1
                   /\ Position(RobotApres) = Unwrap(chemin)[2]
                   /\ Adjacent(Position(RobotAvant), Position(RobotApres))
                   /\ RobotApres = [RobotAvant EXCEPT !.x = Unwrap(chemin)[2][1],
                                                      !.y = Unwrap(chemin)[2][2]]
                   /\ depot' = depot]_vars

\* An Explorateur has just registered its two discoveries: it is on the
\* station in state Explorer with an empty list, on a map where nothing was
\* picked up yet and every way out of the station leads onto a resource.
C18_Witness ==
  \E i \in Explorateurs :
    /\ curseur = i + 1
    /\ SurLaStation(robots[i])
    /\ robots[i].etat = "Explorer"
    /\ robots[i].decouvertes = <<>>
    /\ robots[i].visites # {}
    /\ Len(depot.decouvertes) >= 2
    /\ carte \in CartesSimulation

\* The resource of a Collecteur's specialization.
Specialite(robot) ==
  IF robot.modules = <<"AnalyseChimique">> THEN "Energie"
  ELSE IF robot.modules = <<"Forage">> THEN "Minerai"
  ELSE "Vide"

PositionEntree(decouverte) == <<decouverte.x, decouverte.y>>

\* Entry i of the ledger can be claimed for the resource: it records that
\* resource and its tile holds it now.
EntreeValide(i, resource) ==
  /\ depot.decouvertes[i].resource = resource
  /\ Tuile(carte, PositionEntree(depot.decouvertes[i])) = resource

PeutReclamer(robot) ==
  /\ robot.role = "Collecteur" /\ robot.etat = "Explorer"
  /\ SurLaStation(robot)
  /\ robot.cible = NoneV

\* The robot holds the target p after the step, or has already arrived on it.
PartiVers(robot, p) ==
  \/ robot.cible = Some(p)
  \/ Position(robot) = p /\ robot.cible = NoneV /\ robot.etat = "Retourner"

\* C19: a ledger entry is taken only in the update of a Collecteur that is in
\* state Explorer, on the station and without target; it is the first entry
\* that records the resource of its specialization and whose tile holds it
\* at that moment; it becomes the target and leaves the ledger in the same
\* step, the other entries keeping their content and order. Without such an
\* entry the ledger and the Collecteur are unchanged, and no other step
\* removes an entry or gives a robot a target.
C19_PremiereEntreeValideReclamee ==
  [][PasDeRobot =>
       /\ \A k \in 1..Len(robots) : k # curseur => robots'[k].cible = robots[k].cible
       /\ LET valides == {i \in 1..Len(depot.decouvertes) :
                            EntreeValide(i, Specialite(RobotAvant))}
          IN IF PeutReclamer(RobotAvant) /\ valides # {}
               THEN LET premiere == CHOOSE i \in valides : \A j \in valides : i <= j
                    IN /\ depot'.decouvertes = Retirer(depot.decouvertes, premiere)
                       /\ Len(depot'.decouvertes) = Len(depot.decouvertes) - 1
                       /\ PartiVers(RobotApres,
                                    PositionEntree(depot.decouvertes[premiere]))
               ELSE /\ RobotAvant.role = "Collecteur" =>
                         /\ depot'.decouvertes = depot.decouvertes
                         /\ RobotApres.cible \in {RobotAvant.cible, NoneV}
                    /\ Len(depot'.decouvertes) >= Len(depot.decouvertes)
                    /\ PeutReclamer(RobotAvant) =>
                         (RobotApres = RobotAvant /\ depot' = depot)]_vars

\* A Collecteur has just taken an entry of the ledger and picked up the
\* resource next to the station, while the ledger still holds another entry
\* it could have taken.
C19_Witness ==
  \E i \in 1..Len(robots) :
    /\ robots[i].role = "Collecteur"
    /\ curseur = i + 1
    /\ IsSome(robots[i].cargo)
    /\ Position(robots[i]) = <<Unwrap(robots[i].cargo)[2], Unwrap(robots[i].cargo)[3]>>
    /\ Adjacent(Position(robots[i]), <<station.x, station.y>>)
    /\ \E j \in 1..Len(depot.decouvertes) : EntreeValide(j, Specialite(robots[i]))

(***************************************************************************)
(* SpecCollecteur: the update of one Collecteur by deplacer_robots, from   *)
(* every bounded grid, ledger and Collecteur as a run can leave them when  *)
(* its update comes: on the station without target, or on its way to a     *)
(* target whose resource may have been picked up by another Collecteur.    *)
(***************************************************************************)
\* The ledger entries a run can hold: a resource at a cell that holds it or
\* held it and is now Vide, within reach of the station.
Atteignable(c, p, q) == IsSome(calculer_chemin_bfs(c, p, q))

EntreesPossibles(c, st) ==
  {MkDecouverte(resource, p[1], p[2]) :
     resource \in {"Energie", "Minerai"},
     p \in {q \in Cellules(c) : /\ Tuile(c, q) \in {"Energie", "Minerai", "Vide"}
                                /\ Atteignable(c, <<st.x, st.y>>, q)}}

\* The ledgers: empty, or of one entry whose tile holds the resource recorded
\* or has lost it.
RegistresPossibles(c, st) ==
  {<<>>} \cup {<<e>> : e \in {f \in EntreesPossibles(c, st) :
                                Tuile(c, <<f.x, f.y>>) \in {f.resource, "Vide"}}}

\* The Collecteurs in state Explorer a run can hold: idle on the station, or
\* on a cell within reach of the station with a target in the ledger's terms.
CollecteursPossibles(c, st) ==
  {[MkRobot(st.x, st.y, "Collecteur", <<module>>) EXCEPT
      !.x = p[1], !.y = p[2], !.cible = cible] :
     module \in {"AnalyseChimique", "Forage"},
     p \in {q \in Cellules(c) : Atteignable(c, <<st.x, st.y>>, q)},
     cible \in {NoneV} \cup {Some(q) : q \in Cellules(c)}}

CollecteurPlausible(c, st, robot) ==
  IF robot.cible = NoneV
    THEN robot.x = st.x /\ robot.y = st.y
    ELSE LET q == Unwrap(robot.cible)
         IN /\ q # <<robot.x, robot.y>>
            /\ Tuile(c, q) \in {resource_filtre(robot), "Vide"}
            /\ Atteignable(c, <<st.x, st.y>>, q)

InitCollecteur ==
  /\ \E d \in Dimensions(MaxCellulesCollecteur) :
       \E g \in [0..(d[2] - 1) ->
                  [0..(d[1] - 1) -> {"Vide", "Obstacle", "Energie", "Minerai", "Station"}]] :
         /\ NbTuiles(g, d[1], d[2], "Station") = 1
         /\ carte = MkCarte(g, d[1], d[2])
  /\ station = PositionStationDe(carte)
  /\ \E l \in RegistresPossibles(carte, station) :
       depot = [DepotInitial EXCEPT !.decouvertes = l]
  /\ \E robot \in CollecteursPossibles(carte, station) :
       /\ CollecteurPlausible(carte, station, robot)
       /\ robots = <<robot>>
  /\ robots_crees = TRUE
  /\ commandes = <<>>
  /\ curseur = 1
  /\ nb_depots = AucunDepot
  /\ nb_crees = AucunCree
  /\ appel = AucunAppel

NextCollecteur == CollecteurExplorer \/ CollecteurRetourner

SpecCollecteur == InitCollecteur /\ [][NextCollecteur]_vars

(***************************************************************************)
(* Properties of the Collecteur's arrival (checked under SpecCollecteur).  *)
(***************************************************************************)
PasCollecteurExplorer ==
  /\ PasDeRobot
  /\ RobotAvant.role = "Collecteur" /\ RobotAvant.etat = "Explorer"

\* C20: in the update in which a Collecteur arrives on its target cell, if
\* the tile holds the resource of its specialization the tile becomes Vide,
\* the cargo is that resource with the target position, the target is
\* cleared and the state is Retourner; otherwise the grid is unchanged, the
\* cargo stays empty, the target is cleared and the state is Retourner.
C20_ArriveeSurLaCible ==
  [][(/\ PasCollecteurExplorer
      /\ IsSome(CibleDuPas)
      /\ Position(RobotApres) = Unwrap(CibleDuPas)) =>
       LET p == Unwrap(CibleDuPas)
       IN /\ RobotApres.cible = NoneV
          /\ RobotApres.etat = "Retourner"
          /\ IF Tuile(carte, p) = Specialite(RobotAvant)
               THEN /\ carte' = [carte EXCEPT !.donnees[p[2]][p[1]] = "Vide"]
                    /\ RobotApres.cargo = Some(<<Specialite(RobotAvant), p[1], p[2]>>)
               ELSE /\ carte' = carte
                    /\ RobotApres.cargo = NoneV]_vars

\* A Collecteur arrived on a target whose resource was gone: it stands on
\* the Vide cell, away from the station, in state Retourner without cargo
\* or target.
C20_Witness ==
  /\ Len(robots) = 1
  /\ robots[1].role = "Collecteur" /\ robots[1].etat = "Retourner"
  /\ robots[1].cargo = NoneV /\ robots[1].cible = NoneV
  /\ ~SurLaStation(robots[1])
  /\ Tuile(carte, Position(robots[1])) = "Vide"

(***************************************************************************)
(* SpecIsole: the update of one robot by deplacer_robots, from every       *)
(* bounded grid and every robot of either role and state standing on a     *)
(* cell that is not an Obstacle. The robot may be cut off from the station *)
(* or from its target, which the robots spawned at the station never are:  *)
(* the branches of deplacer_robots taken when calculer_chemin_bfs returns  *)
(* None run only from such states.                                         *)
(***************************************************************************)
CellulesLibresDe(c) == {q \in Cellules(c) : Tuile(c, q) # "Obstacle"}

\* The discoveries a robot or the ledger can hold: a resource at a cell that
\* holds it, or held it and is now Vide.
DecouvertesIsole(c) ==
  {MkDecouverte(resource, q[1], q[2]) :
     resource \in {"Energie", "Minerai"},
     q \in {r \in Cellules(c) : Tuile(c, r) \in {"Energie", "Minerai", "Vide"}}}

DecouverteTenable(c, e) == Tuile(c, <<e.x, e.y>>) \in {e.resource, "Vide"}

\* An Explorateur on its way back with two discoveries, made at two cells
\* that still hold the resource recorded. Once on the station it commits them
\* and goes on exploring.
ExplorateursIsoles(c, p) ==
  LET neuf == [MkRobot(p[1], p[2], "Explorateur", <<"ImagerieHauteResolution">>)
                 EXCEPT !.visites = {p}]
      trouvables == {e \in DecouvertesIsole(c) : Tuile(c, <<e.x, e.y>>) = e.resource}
  IN {[neuf EXCEPT !.etat = "Retourner", !.decouvertes = <<ef[1], ef[2]>>] :
        ef \in {gh \in trouvables \X trouvables :
                  <<gh[1].x, gh[1].y>> # <<gh[2].x, gh[2].y>>}}

\* A Collecteur: idle on the station, on its way to a target that holds its
\* resource or lost it, on its way back with cargo picked up on another
\* cell, or away from the station on its way back without cargo.
CollecteursIsoles(c, st, p) ==
  LET neuf(module) == [MkRobot(p[1], p[2], "Collecteur", <<module>>) EXCEPT !.x = p[1]]
      modules == {"AnalyseChimique", "Forage"}
      cibles(module) == {q \in Cellules(c) \ {p} :
                           Tuile(c, q) \in {resource_filtre(neuf(module)), "Vide"}}
      sources == {q \in Cellules(c) \ {p} : Tuile(c, q) = "Vide"}
  IN {neuf(module) : module \in {mo \in modules : p = <<st.x, st.y>>}}
     \cup UNION {{[neuf(module) EXCEPT !.cible = Some(q)] : q \in cibles(module)} :
                   module \in modules}
     \cup {[neuf(module) EXCEPT !.etat = "Retourner"] :
             module \in {mo \in modules : p # <<st.x, st.y>>}}
     \cup UNION {{[neuf(module) EXCEPT
                     !.etat = "Retourner",
                     !.cargo = Some(<<resource_filtre(neuf(module)), q[1], q[2]>>)] :
                    q \in sources} : module \in modules}

\* The ledger is empty unless the robot is a Collecteur that can claim; the
\* stocks are 0 unless the robot is a Collecteur on its way back.
InitIsole ==
  /\ \E d \in Dimensions(MaxCellulesIsole) :
       \E g \in [0..(d[2] - 1) ->
                  [0..(d[1] - 1) -> {"Vide", "Obstacle", "Energie", "Minerai", "Station"}]] :
         /\ NbTuiles(g, d[1], d[2], "Station") = 1
         /\ carte = MkCarte(g, d[1], d[2])
  /\ station = PositionStationDe(carte)
  /\ \E p \in CellulesLibresDe(carte) :
       \E robot \in ExplorateursIsoles(carte, p) \cup CollecteursIsoles(carte, station, p) :
         /\ robots = <<robot>>
         /\ \E l \in {<<>>} \cup {<<e>> : e \in {f \in DecouvertesIsole(carte) :
                                                  DecouverteTenable(carte, f)}} :
              /\ l # <<>> => /\ robot.role = "Collecteur" /\ robot.etat = "Explorer"
                             /\ robot.cible = NoneV
              /\ \E se \in 0..2, sm \in 0..2 :
                   /\ (se # 0 \/ sm # 0) =>
                        /\ robot.role = "Collecteur" /\ robot.etat = "Retourner"
                        /\ p = <<station.x, station.y>>
                   /\ depot = [decouvertes |-> l, stock_energie |-> se,
                               stock_minerai |-> sm]
                   /\ nb_depots = [r \in {"Energie", "Minerai"} |->
                                     IF r = "Energie" THEN se ELSE sm]
  /\ robots_crees = TRUE
  /\ commandes = <<>>
  /\ curseur = 1
  /\ nb_crees = AucunCree
  /\ appel = AucunAppel

NextIsole ==
  \/ ExplorateurExplorer
  \/ ExplorateurRetourner
  \/ CollecteurExplorer
  \/ CollecteurRetourner

SpecIsole == InitIsole /\ [][NextIsole]_vars

(***************************************************************************)
(* Properties of the steps without a path and of the arrival at the        *)
(* station (checked under SpecIsole).                                      *)
(***************************************************************************)
SansChemin(robot, p) == calculer_chemin_bfs(carte, Position(robot), p) = NoneV

\* C21: when a Collecteur in state Explorer has a target, held before the
\* step or claimed in it, and calculer_chemin_bfs returns None from its
\* position to the target, the step clears the target and sets the state to
\* Retourner; the Collecteur does not move and gets no cargo, the grid is
\* unchanged, the stocks are unchanged and the ledger gets no entry: it is
\* unchanged when the target was held before the step, and is left without
\* the claimed entry when the target was claimed in the step.
C21_CibleAbandonneeSansChemin ==
  [][(/\ PasCollecteurExplorer
      /\ IsSome(CibleDuPas)
      /\ SansChemin(RobotAvant, Unwrap(CibleDuPas))) =>
       /\ RobotApres = [RobotAvant EXCEPT !.cible = NoneV, !.etat = "Retourner"]
       /\ carte' = carte
       /\ depot'.stock_energie = depot.stock_energie
       /\ depot'.stock_minerai = depot.stock_minerai
       /\ IF IsSome(RobotAvant.cible)
            THEN depot'.decouvertes = depot.decouvertes
            ELSE /\ Len(depot'.decouvertes) = Len(depot.decouvertes) - 1
                 /\ \A i \in 1..Len(depot'.decouvertes) :
                      PositionEntree(depot'.decouvertes[i]) # Unwrap(CibleDuPas)]_vars

\* A Collecteur on a station it cannot leave claimed an entry whose cell is
\* behind an Obstacle: it is still on the station, in state Retourner without
\* target or cargo, the ledger is empty and the resource is still on the grid.
C21_Witness ==
  /\ Len(robots) = 1
  /\ deplacements_possibles(carte, robots[1]) = <<>>
  /\ robots[1].role = "Collecteur" /\ robots[1].etat = "Retourner"
  /\ robots[1].cible = NoneV /\ robots[1].cargo = NoneV
  /\ SurLaStation(robots[1])
  /\ depot.decouvertes = <<>>
  /\ \E q \in Cellules(carte) :
       /\ Tuile(carte, q) = Specialite(robots[1])
       /\ SansChemin(robots[1], q)

StockDe(d, resource) ==
  IF resource = "Energie" THEN d.stock_energie ELSE d.stock_minerai

\* The counter after one unit is added to n and the threshold reset applied.
UnDePlus(n) == IF n + 1 >= 3 THEN n + 1 - 3 ELSE n + 1

\* C22: the update of a Collecteur in state Retourner that stands on the
\* station empties its cargo and sets its state to Explorer. With cargo, the
\* stock of the cargo's resource is the old stock plus 1, less the threshold
\* when that sum reaches it, and the other stock is unchanged; without
\* cargo, the depot and the number of robots are unchanged. The update
\* changes neither the grid nor the ledger nor the robot's position and
\* target. The update of any other robot changes no stock.
C22_DepotSurLaStation ==
  [][PasDeRobot =>
       IF /\ RobotAvant.role = "Collecteur" /\ RobotAvant.etat = "Retourner"
          /\ SurLaStation(RobotAvant)
         THEN /\ RobotApres = [RobotAvant EXCEPT !.cargo = NoneV, !.etat = "Explorer"]
              /\ carte' = carte
              /\ depot'.decouvertes = depot.decouvertes
              /\ IF IsSome(RobotAvant.cargo)
                   THEN LET resource == Unwrap(RobotAvant.cargo)[1]
                        IN /\ resource \in {"Energie", "Minerai"}
                           /\ StockDe(depot', resource) = UnDePlus(StockDe(depot, resource))
                           /\ \A autre \in {"Energie", "Minerai"} \ {resource} :
                                StockDe(depot', autre) = StockDe(depot, autre)
                   ELSE /\ depot' = depot
                        /\ Len(TousLesRobots') = Len(TousLesRobots)
         ELSE /\ depot'.stock_energie = depot.stock_energie
              /\ depot'.stock_minerai = depot.stock_minerai]_vars

\* A Collecteur deposited the Energie that brought the stock from 2 to the
\* threshold while the stock of Minerai was 1: the stock of Energie is 0,
\* the stock of Minerai still 1, the Collecteur is on the station in state
\* Explorer without cargo and a Collecteur was created.
C22_Witness ==
  /\ nb_depots["Energie"] = 3 /\ depot.stock_energie = 0
  /\ depot.stock_minerai = 1
  /\ nb_crees["Forage"] = 1
  /\ robots[1].role = "Collecteur" /\ robots[1].etat = "Explorer"
  /\ robots[1].cargo = NoneV /\ SurLaStation(robots[1])

\* A robot in state Retourner, away from the station, for which
\* calculer_chemin_bfs returns None towards the station.
Bloque(robot) ==
  /\ robot.etat = "Retourner"
  /\ ~SurLaStation(robot)
  /\ SansChemin(robot, <<station.x, station.y>>)

\* C23: the update of a robot of either role in state Retourner, away from
\* the station and without a path to it, leaves the robot (position, state,
\* cargo, target, discoveries) as it was and changes neither grid nor depot.
\* No step changes which cells are obstacles, and a robot in that situation
\* is in it, unchanged, after every step.
C23_BloqueResteEnPlace ==
  [][/\ (PasDeRobot /\ Bloque(RobotAvant)) =>
          /\ RobotApres = RobotAvant
          /\ carte' = carte
          /\ depot' = depot
     /\ \A p \in Cellules(carte) :
          est_obstacle(carte', p[1], p[2]) = est_obstacle(carte, p[1], p[2])
     /\ \A i \in 1..Len(robots) :
          Bloque(robots[i]) =>
            /\ robots'[i] = robots[i]
            /\ SansChemin(robots'[i], <<station'.x, station'.y>>)]_vars

\* A Collecteur picked its cargo up on a cell from which no path leads to
\* the station: it stands there in state Retourner with the cargo, next to
\* a free cell.
C23_Witness ==
  /\ Len(robots) = 1
  /\ Bloque(robots[1])
  /\ deplacements_possibles(carte, robots[1]) # <<>>
  /\ robots[1].role = "Collecteur"
  /\ IsSome(robots[1].cargo)
  /\ Position(robots[1]) = <<Unwrap(robots[1].cargo)[2], Unwrap(robots[1].cargo)[3]>>

(***************************************************************************)
(* SpecPasse: the passes of deplacer_robots over an Explorateur and two    *)
(* Collecteurs, in the order of the query, on the shared Carte and         *)
(* DepotStation. appel holds the grid, the depot and the robots as they    *)
(* were when the running pass began.                                       *)
(***************************************************************************)
CartesPasse ==
  { CarteDe(<< <<"Station", "Energie", "Energie">> >>),
    CarteDe(<< <<"Energie", "Station", "Minerai">> >>),
    CarteDe(<< <<"Station", "Minerai">>,
               <<"Energie", "Vide">> >>) }

Instantane == [fn |-> "passe", carte |-> carte, depot |-> depot, robots |-> robots]

InitPasse ==
  /\ carte \in CartesPasse
  /\ station = PositionStationDe(carte)
  /\ \E l \in RegistresPossibles(carte, station) :
       depot = [DepotInitial EXCEPT !.decouvertes = l]
  /\ \E explorateur \in
          {MkRobot(station.x, station.y, "Explorateur", <<"ImagerieHauteResolution">>)}
            \cup ExplorateursIsoles(carte, <<station.x, station.y>>) :
       \E premier \in CollecteursPossibles(carte, station) :
         \E second \in CollecteursPossibles(carte, station) :
           /\ CollecteurPlausible(carte, station, premier)
           /\ CollecteurPlausible(carte, station, second)
           /\ robots = <<explorateur, premier, second>>
  /\ robots_crees = TRUE
  /\ commandes = <<>>
  /\ curseur = 1
  /\ nb_depots = AucunDepot
  /\ nb_crees = AucunCree
  /\ appel = Instantane

\* A pass is running on the state appel was taken from.
PasseOuverte == curseur > 1 \/ appel = Instantane

\* The beginning of a pass: the system is handed the resources and the query
\* as the previous pass left them.
DebutDePasse ==
  /\ curseur = 1
  /\ appel # Instantane
  /\ appel' = Instantane
  /\ UNCHANGED <<carte, station, depot, robots, robots_crees, commandes, curseur,
                 nb_depots, nb_crees>>

PasseExplorateurExplorer == PasseOuverte /\ ExplorateurExplorer

PasseExplorateurRetourner == PasseOuverte /\ ExplorateurRetourner

PasseCollecteurExplorer == PasseOuverte /\ CollecteurExplorer

PasseCollecteurRetourner == PasseOuverte /\ CollecteurRetourner

NextPasse ==
  \/ DebutDePasse
  \/ PasseExplorateurExplorer
  \/ PasseExplorateurRetourner
  \/ PasseCollecteurExplorer
  \/ PasseCollecteurRetourner

SpecPasse == InitPasse /\ [][NextPasse]_vars

(***************************************************************************)
(* Properties of a pass (checked under SpecPasse).                         *)
(***************************************************************************)
\* The target a Collecteur claimed in a step or in the part of a pass that
\* took it from avant to apres: the target it holds, or the source of the
\* cargo it picked up since.
CiblePrise(avant, apres) ==
  IF avant.role = "Collecteur" /\ avant.etat = "Explorer" /\ avant.cible = NoneV
    THEN IF IsSome(apres.cible) THEN apres.cible
         ELSE IF IsSome(apres.cargo)
           THEN Some(<<Unwrap(apres.cargo)[2], Unwrap(apres.cargo)[3]>>)
           ELSE NoneV
    ELSE NoneV

\* The ledger entries committed since the pass began.
CommisesDansLaPasse ==
  {i \in 1..Len(depot.decouvertes) : ~Contient(appel.depot.decouvertes, depot.decouvertes[i])}

\* C24: in a pass the robots are updated one after the other on the grid and
\* the depot as the robots before them left them. (a) A Collecteur without
\* target on the station claims when the ledger holds a valid entry of its
\* type committed earlier in the pass, and claims such an entry when no
\* other is valid. (b) A Collecteur that arrives on a target whose resource
\* was picked up earlier in the pass finds it Vide: it gets no cargo and
\* the grid is unchanged. (c) A Collecteur never claims the target that a
\* Collecteur updated before it claimed in the same pass.
C24_EffetsVisiblesDansLaPasse ==
  [][(PasDeRobot /\ PasseOuverte /\ PasCollecteurExplorer) =>
       LET prise == CiblePrise(RobotAvant, RobotApres)
           valides == {i \in 1..Len(depot.decouvertes) :
                         EntreeValide(i, Specialite(RobotAvant))}
       IN /\ (/\ SurLaStation(RobotAvant) /\ RobotAvant.cible = NoneV
              /\ valides \cap CommisesDansLaPasse # {}) =>
                /\ IsSome(prise)
                /\ valides \subseteq CommisesDansLaPasse =>
                     \E i \in CommisesDansLaPasse :
                       PositionEntree(depot.decouvertes[i]) = Unwrap(prise)
          /\ (/\ IsSome(RobotAvant.cible)
              /\ Position(RobotApres) = Unwrap(RobotAvant.cible)
              /\ Tuile(appel.carte, Unwrap(RobotAvant.cible)) = Specialite(RobotAvant)
              /\ Tuile(carte, Unwrap(RobotAvant.cible)) = "Vide") =>
                /\ RobotApres.cargo = NoneV
                /\ carte' = carte
          /\ IsSome(prise) =>
               \A j \in 1..(curseur - 1) :
                 CiblePrise(appel.robots[j], robots[j]) # prise]_vars

\* The Explorateur began the pass on the station with two discoveries and
\* an empty ledger; the pass is over and a Collecteur that had no target
\* now has one of the two as its target, the other being in the ledger or
\* the target of the other Collecteur.
C24_Witness ==
  /\ curseur = 1 /\ appel # Instantane
  /\ appel.depot.decouvertes = <<>>
  /\ Len(appel.robots[1].decouvertes) = 2
  /\ SurLaStation(appel.robots[1])
  /\ \E j \in 2..3 :
       /\ appel.robots[j].cible = NoneV
       /\ IsSome(robots[j].cible)
       /\ \E k \in 1..2 :
            PositionEntree(appel.robots[1].decouvertes[k]) = Unwrap(robots[j].cible)

(***************************************************************************)
(* SpecAsync: the simulation with the Explorateur's way back as robot.rs   *)
(* runs it. The step clones the Carte, spawns calculer_chemin_bfs on the   *)
(* clone in the AsyncComputeTaskPool, blocks on the task and applies its   *)
(* result. appel holds the task while the step waits for it.               *)
(***************************************************************************)
\* Faulty variant: the clone holds the dimensions of the grid and none of its
\* obstacles.
carte_clone_sans_obstacles(c) ==
  [donnees |-> [y \in DOMAIN c.donnees |->
                  [x \in DOMAIN c.donnees[y] |->
                     IF c.donnees[y][x] = "Obstacle" THEN "Vide" ELSE c.donnees[y][x]]],
   largeur |-> c.largeur,
   hauteur |-> c.hauteur]

\* #[derive(Clone)] on Carte: the rows are copied cell by cell, and the
\* dimensions.
carte_clone(c) ==
  [donnees |-> [y \in DOMAIN c.donnees |->
                  [x \in DOMAIN c.donnees[y] |-> c.donnees[y][x]]],
   largeur |-> c.largeur,
   hauteur |-> c.hauteur]

\* if let Some(chemin) = ... { if chemin.len() > 1 { move to chemin[1] } }
suivre_chemin(robot, chemin) ==
  IF IsSome(chemin) /\ Len(Unwrap(chemin)) > 1
    THEN [robot EXCEPT !.x = Unwrap(chemin)[2][1], !.y = Unwrap(chemin)[2][2]]
    ELSE robot

\* The Explorateur / Retourner arm of the deplacer_robots of main.rs, which
\* calls calculer_chemin_bfs on the Carte itself: [robot, depot] after it.
explorateur_retourner_synchrone(c, st, d, robot) ==
  IF robot.x = st.x /\ robot.y = st.y
    THEN [robot |-> [robot EXCEPT !.decouvertes = <<>>, !.etat = "Explorer"],
          depot |-> enregistrer_toutes(d, robot.decouvertes, 1)]
    ELSE LET chemin == calculer_chemin_bfs(c, <<robot.x, robot.y>>, <<st.x, st.y>>)
         IN [robot |-> IF IsSome(chemin) /\ Len(Unwrap(chemin)) > 1
                         THEN [robot EXCEPT !.x = Unwrap(chemin)[2][1],
                                            !.y = Unwrap(chemin)[2][2]]
                         ELSE robot,
             depot |-> d]

\* Maps on which the way back to the station goes around an obstacle.
CartesAsync ==
  { CarteDe(<< <<"Energie", "Vide", "Vide">>,
               <<"Station", "Obstacle", "Energie">> >>),
    CarteDe(<< <<"Station", "Obstacle", "Minerai">>,
               <<"Energie", "Vide", "Minerai">> >>) }

InitAsync ==
  /\ carte \in CartesAsync
  /\ station = PositionStationDe(carte)
  /\ depot = DepotInitial
  /\ robots = <<>>
  /\ robots_crees = FALSE
  /\ commandes = <<>>
  /\ curseur = 1
  /\ nb_depots = AucunDepot
  /\ nb_crees = AucunCree
  /\ appel = AucunAppel

\* let carte_clone = carte.clone(); let chemin_future = task_pool.spawn(..)
LancerTache ==
  /\ RobotCourant("Explorateur", "Retourner")
  /\ ~SurLaStation(robots[curseur])
  /\ appel = AucunAppel
  /\ appel' = [fn |-> "tache",
               carte_clone |-> carte_clone(carte),
               current_pos |-> <<robots[curseur].x, robots[curseur].y>>,
               target |-> <<station.x, station.y>>,
               chemin |-> NoneV]
  /\ UNCHANGED <<carte, station, depot, robots, robots_crees, commandes, curseur,
                 nb_depots, nb_crees>>

\* The task, on a thread of the pool: calculer_chemin_bfs(&carte_clone, ..)
ExecuterTache ==
  /\ appel.fn = "tache"
  /\ appel' = [appel EXCEPT
                 !.fn = "chemin",
                 !.chemin = calculer_chemin_bfs(appel.carte_clone, appel.current_pos,
                                                appel.target)]
  /\ UNCHANGED <<carte, station, depot, robots, robots_crees, commandes, curseur,
                 nb_depots, nb_crees>>

\* future::block_on(chemin_future) returns and the step ends.
AppliquerChemin ==
  /\ appel.fn = "chemin"
  /\ FinMiseAJour(suivre_chemin(robots[curseur], appel.chemin), <<>>)
  /\ appel' = AucunAppel
  /\ UNCHANGED <<carte, station, depot, robots_crees, nb_depots, nb_crees>>

\* The Explorateur / Retourner arm on the station, where no task is spawned.
ExplorateurDepose ==
  /\ curseur <= Len(robots)
  /\ SurLaStation(robots[curseur])
  /\ ExplorateurRetourner

NextAsync ==
  \/ CreerRobots
  \/ ExplorateurExplorer
  \/ ExplorateurDepose
  \/ LancerTache
  \/ ExecuterTache
  \/ AppliquerChemin
  \/ CollecteurExplorer
  \/ CollecteurRetourner

SpecAsync == InitAsync /\ [][NextAsync]_vars

(***************************************************************************)
(* Properties of the asynchronous path computation (checked under          *)
(* SpecAsync).                                                             *)
(***************************************************************************)
TacheEnCours == appel.fn \in {"tache", "chemin"}

Effectif ==
  LET robot(role, module) ==
        [x |-> station.x, y |-> station.y, etat |-> "Explorer", role |-> role,
         decouvertes |-> <<>>, cargo |-> NoneV, cible |-> NoneV, visites |-> {},
         modules |-> <<module>>]
  IN << robot("Explorateur", "ImagerieHauteResolution"),
        robot("Explorateur", "ImagerieHauteResolution"),
        robot("Explorateur", "ImagerieHauteResolution"),
        robot("Collecteur", "AnalyseChimique"),
        robot("Collecteur", "Forage") >>

\* The robots, spawned or waiting in commandes, are none before creer_robots
\* has run, and afterwards the five of Effectif by role and module followed
\* by Collecteurs only.
PopulationReguliere(tous, crees) ==
  IF crees
    THEN /\ Len(tous) >= Len(Effectif)
         /\ \A i \in 1..Len(tous) :
              IF i <= Len(Effectif)
                THEN /\ tous[i].role = Effectif[i].role
                     /\ tous[i].modules = Effectif[i].modules
                ELSE tous[i].role = "Collecteur"
    ELSE tous = <<>>

IssuesDuPas ==
  LET robot == robots[curseur]
  IN IF robot.role = "Explorateur" /\ robot.etat = "Explorer"
       THEN {explorateur_explorer(carte, robot, nouveau) :
               nouveau \in destinations_explorateur(
                             carte, robot, robot.visites \cup {<<robot.x, robot.y>>})}
     ELSE IF robot.role = "Explorateur"
       THEN {explorateur_retourner(carte, station, depot, robot).robot}
     ELSE IF robot.etat = "Explorer"
       THEN {collecteur_chercher(
               carte, collecteur_reclamer(carte, station, depot, robot).robot).robot}
       ELSE {collecteur_retourner(carte, station, depot, robot).robot}

\* C28: the update of a robot has exactly one possible outcome, so that two
\* runs from the same grid, station and robots go through the same states.
C28_UneSeuleIssueParPas ==
  PasDeRobot => Cardinality(IssuesDuPas) = 1

\* C29: an Explorateur has neither cargo nor target; a Collecteur has neither
\* discoveries nor visited cells; a Collecteur has cargo only in state
\* Retourner, and of the resource of its module; a Collecteur has a target
\* only in state Explorer.
C29_ChampsSelonLeRole ==
  \A i \in 1..Len(TousLesRobots) :
    LET robot == TousLesRobots[i]
    IN IF robot.role = "Explorateur"
         THEN robot.cargo = NoneV /\ robot.cible = NoneV
         ELSE /\ robot.role = "Collecteur"
              /\ robot.decouvertes = <<>>
              /\ robot.visites = {}
              /\ IsSome(robot.cargo) =>
                   /\ robot.etat = "Retourner"
                   /\ Unwrap(robot.cargo)[1] = Specialite(robot)
              /\ IsSome(robot.cible) => robot.etat = "Explorer"

\* A Collecteur with Forage is on its way back with Minerai while a
\* Collecteur with AnalyseChimique is on its way to a target and an
\* Explorateur holds a discovery.
C29_Witness ==
  /\ \E i \in 1..Len(robots) :
       /\ robots[i].role = "Collecteur" /\ robots[i].etat = "Retourner"
       /\ robots[i].modules = <<"Forage">>
       /\ IsSome(robots[i].cargo) /\ Unwrap(robots[i].cargo)[1] = "Minerai"
       /\ ~SurLaStation(robots[i])
  /\ \E i \in 1..Len(robots) :
       /\ robots[i].role = "Collecteur" /\ robots[i].etat = "Explorer"
       /\ robots[i].modules = <<"AnalyseChimique">>
       /\ IsSome(robots[i].cible)
  /\ \E i \in 1..Len(robots) :
       /\ robots[i].role = "Explorateur"
       /\ robots[i].decouvertes # <<>> /\ robots[i].visites # {}

\* C30 as claimed: every ledger entry is of Energie or Minerai and the tile
\* at its position holds that resource.
C30_EntreesDisponibles ==
  \A i \in 1..Len(depot.decouvertes) :
    /\ depot.decouvertes[i].resource \in {"Energie", "Minerai"}
    /\ Tuile(carte, PositionEntree(depot.decouvertes[i])) = depot.decouvertes[i].resource

\* C30: every ledger entry is of Energie or Minerai, at a cell of the grid,
\* and the tile at its position holds that resource or, once a Collecteur
\* has picked it up, Vide.
C30_EntreesTrouveesOuRamassees ==
  \A i \in 1..Len(depot.decouvertes) :
    /\ depot.decouvertes[i].resource \in {"Energie", "Minerai"}
    /\ PositionEntree(depot.decouvertes[i]) \in Cellules(carte)
    /\ Tuile(carte, PositionEntree(depot.decouvertes[i]))
         \in {depot.decouvertes[i].resource, "Vide"}

\* The ledger holds an entry whose resource a Collecteur has picked up: the
\* tile is Vide and no Collecteur of its type can claim it, while another
\* entry is still on the grid.
C30_Witness ==
  /\ \E i \in 1..Len(depot.decouvertes) :
       Tuile(carte, PositionEntree(depot.decouvertes[i])) = "Vide"
  /\ \E i \in 1..Len(depot.decouvertes) :
       Tuile(carte, PositionEntree(depot.decouvertes[i])) = depot.decouvertes[i].resource

(***************************************************************************)
(* Properties of the resources, positions and paths of a run (checked      *)
(* under Spec).                                                            *)
(***************************************************************************)
\* The map the run started from: the grid changes in its resource tiles
\* only, so it is the generated map with the same dimensions and station.
CarteGeneree ==
  CHOOSE c \in CartesSimulation :
    /\ c.largeur = carte.largeur /\ c.hauteur = carte.hauteur
    /\ Tuile(c, <<station.x, station.y>>) = "Station"

NbPorteurs(resource) ==
  Cardinality({i \in 1..Len(TousLesRobots) :
                 /\ IsSome(TousLesRobots[i].cargo)
                 /\ Unwrap(TousLesRobots[i].cargo)[1] = resource})

\* The Collecteurs created by the deposits of a resource: those with the
\* module of the other resource, less the one creer_robots spawned.
NbCreesPar(resource) ==
  IF ~robots_crees THEN 0
  ELSE IF resource = "Energie"
    THEN NbCollecteurs("Forage") - nb_collecteurs_forage
    ELSE NbCollecteurs("AnalyseChimique") - nb_collecteurs_analyse

\* C31: for Energie and for Minerai, the tiles of the resource the generated
\* map held and the grid no longer holds are as many as the stock of the
\* resource, plus 3 per Collecteur its deposits created, plus the
\* Collecteurs that carry it.
C31_RessourcesConservees ==
  \A resource \in {"Energie", "Minerai"} :
    NbTuiles(CarteGeneree.donnees, carte.largeur, carte.hauteur, resource)
      - NbTuiles(carte.donnees, carte.largeur, carte.hauteur, resource)
    = StockDe(depot, resource) + 3 * NbCreesPar(resource) + NbPorteurs(resource)

\* The four Energie tiles of a map are gone: three deposits created a
\* Collecteur and left the stock at 0, and the fourth unit is the cargo of a
\* Collecteur.
C31_Witness ==
  /\ NbTuiles(CarteGeneree.donnees, carte.largeur, carte.hauteur, "Energie") = 4
  /\ NbTuiles(carte.donnees, carte.largeur, carte.hauteur, "Energie") = 0
  /\ depot.stock_energie = 0
  /\ NbCreesPar("Energie") = 1
  /\ NbPorteurs("Energie") = 1

SurCelluleLibre(rs, c) ==
  \A i \in 1..Len(rs) : Libre(c, Position(rs[i]))

\* C32: every robot stands on a cell of the grid that is not an Obstacle,
\* and the update of a robot leaves it where it was or on one of the four
\* cells next to it; a robot is updated once in a pass, and no step moves a
\* robot other than the one updated.
C32_UneCelluleParPas ==
  [][/\ SurCelluleLibre(TousLesRobots, carte)
     /\ SurCelluleLibre(TousLesRobots', carte')
     /\ PasDeRobot =>
          /\ \/ Position(RobotApres) = Position(RobotAvant)
             \/ Adjacent(Position(RobotApres), Position(RobotAvant))
          /\ \A i \in 1..Len(robots) :
               i # curseur => Position(robots'[i]) = Position(robots[i])
          /\ curseur' = IF curseur = Len(robots) THEN 1 ELSE curseur + 1]_vars

\* The first Explorateur of the pass has just moved to a cell two steps
\* away from the station, and a Collecteur is on its way to a target, off
\* the station.
C32_Witness ==
  /\ curseur = 2
  /\ Manhattan(Position(robots[1]), <<station.x, station.y>>) = 2
  /\ \E i \in 1..Len(robots) :
       /\ robots[i].role = "Collecteur" /\ IsSome(robots[i].cible)
       /\ ~SurLaStation(robots[i])

(***************************************************************************)
(* SpecEnclave: the simulation on generated maps where Obstacles cut cells *)
(* off from the station, with resources on both sides.                     *)
(***************************************************************************)
CartesEnclave ==
  { CarteDe(<< <<"Energie", "Station", "Energie", "Obstacle", "Minerai">> >>),
    CarteDe(<< <<"Station", "Minerai", "Obstacle">>,
               <<"Energie", "Obstacle", "Energie">> >>) }

InitEnclave ==
  /\ carte \in CartesEnclave
  /\ station = PositionStationDe(carte)
  /\ depot = DepotInitial
  /\ robots = <<>>
  /\ robots_crees = FALSE
  /\ commandes = <<>>
  /\ curseur = 1
  /\ nb_depots = AucunDepot
  /\ nb_crees = AucunCree
  /\ appel = AucunAppel

SpecEnclave == InitEnclave /\ [][Next]_vars

(***************************************************************************)
(* Properties of the paths of a run (checked under SpecEnclave).           *)
(***************************************************************************)
\* The cells a 4-connected route of non-Obstacle cells links to the station.
ComposanteStation ==
  {p \in Cellules(carte) : DistanceMin(carte, <<station.x, station.y>>, p) >= 0}

\* The call of calculer_chemin_bfs the update of the robot makes, if any, as
\* <<depart, arrivee>>: towards the station in state Retourner away from it,
\* towards the target, held or just claimed, for a Collecteur in state
\* Explorer.
AppelDuPas ==
  LET robot == robots[curseur]
  IN IF robot.etat = "Retourner"
       THEN IF SurLaStation(robot) THEN NoneV
            ELSE Some(<<Position(robot), <<station.x, station.y>>>>)
     ELSE IF robot.role = "Collecteur"
       THEN LET cible == collecteur_reclamer(carte, station, depot, robot).robot.cible
            IN IF IsSome(cible) THEN Some(<<Position(robot), Unwrap(cible)>>) ELSE NoneV
       ELSE NoneV

\* C33: in a run that starts with the robots on the station, the position of
\* every robot, every discovery a robot holds, every ledger entry and every
\* target lie in the station's component of non-Obstacle cells; the call of
\* calculer_chemin_bfs made by the update of a robot never returns None, and
\* no robot is in state Retourner away from the station without a path.
C33_SansCheminInatteignable ==
  /\ \A i \in 1..Len(TousLesRobots) :
       LET robot == TousLesRobots[i]
       IN /\ Position(robot) \in ComposanteStation
          /\ \A k \in 1..Len(robot.decouvertes) :
               PositionEntree(robot.decouvertes[k]) \in ComposanteStation
          /\ IsSome(robot.cible) => Unwrap(robot.cible) \in ComposanteStation
          /\ ~Bloque(robot)
  /\ \A k \in 1..Len(depot.decouvertes) :
       PositionEntree(depot.decouvertes[k]) \in ComposanteStation
  /\ (PasDeRobot /\ IsSome(AppelDuPas)) =>
       IsSome(calculer_chemin_bfs(carte, Unwrap(AppelDuPas)[1], Unwrap(AppelDuPas)[2]))

\* A resource lies behind the Obstacles, out of the station's component,
\* and is still on the grid; a resource of the station's side was found,
\* claimed, picked up and deposited, and a Collecteur is on its way back
\* from another.
C33_Witness ==
  /\ \E p \in Cellules(carte) \ ComposanteStation :
       Tuile(carte, p) \in {"Energie", "Minerai"}
  /\ nb_depots["Energie"] + nb_depots["Minerai"] = 1
  /\ \E i \in 1..Len(robots) :
       /\ robots[i].role = "Collecteur" /\ robots[i].etat = "Retourner"
       /\ IsSome(robots[i].cargo)
       /\ ~SurLaStation(robots[i])

(***************************************************************************)
(* Properties of the Collecteurs of a run (checked under Spec).            *)
(***************************************************************************)
\* C34: a Collecteur in state Explorer that has no target stands on the
\* station cell, in every state of a run, the robots waiting in Commands
\* included.
C34_CollecteurOisifALaStation ==
  \A i \in 1..Len(TousLesRobots) :
    LET robot == TousLesRobots[i]
    IN (robot.role = "Collecteur" /\ robot.etat = "Explorer" /\ robot.cible = NoneV)
         => SurLaStation(robot)

\* A Collecteur is back in state Explorer without a target after a deposit,
\* while another Collecteur is away from the station.
C34_Witness ==
  /\ nb_depots["Energie"] + nb_depots["Minerai"] >= 1
  /\ \E i, j \in 1..Len(robots) :
       /\ robots[i].role = "Collecteur" /\ robots[i].etat = "Explorer"
       /\ robots[i].cible = NoneV /\ robots[i].cargo = NoneV
       /\ SurLaStation(robots[i])
       /\ robots[j].role = "Collecteur" /\ ~SurLaStation(robots[j])

(***************************************************************************)
(* SpecTicks: the simulation when the Update schedule keeps running its    *)
(* systems.  creer_robots gets its turn (weak fairness), and the updates   *)
(* of deplacer_robots keep coming: the update of a robot always moves      *)
(* curseur, so once the robots exist a step of Next is always possible and *)
(* weak fairness of Next is the same as Next steps occurring infinitely    *)
(* often, which is how it is stated.                                       *)
(***************************************************************************)
\* The generated maps of the simulation, but the one with the most resource
\* tiles, whose runs are the longest.
CartesTicks ==
  CartesSimulation
    \ {CarteDe(<< <<"Minerai", "Minerai", "Station", "Minerai", "Energie">> >>)}

InitTicks ==
  /\ carte \in CartesTicks
  /\ station = PositionStationDe(carte)
  /\ depot = DepotInitial
  /\ robots = <<>>
  /\ robots_crees = FALSE
  /\ commandes = <<>>
  /\ curseur = 1
  /\ nb_depots = AucunDepot
  /\ nb_crees = AucunCree
  /\ appel = AucunAppel

SpecTicks ==
  InitTicks /\ [][Next]_vars /\ WF_vars(CreerRobots) /\ []<><<Next>>_vars

\* The indices a robot of the run can have: the robots of creer_robots and
\* the Collecteurs the deposits of the run can pay for.
IndicesRobots ==
  1..(nb_explorateurs + nb_collecteurs_analyse + nb_collecteurs_forage + 2)

\* Robot number i exists and is in state Retourner.
EnRetour(i) == i <= Len(robots) /\ robots[i].etat = "Retourner"

\* Robot number i exists, stands on the station in state Explorer, and has
\* nothing left to hand over: no pending discovery for an Explorateur, no
\* cargo for a Collecteur.
Rentre(i) ==
  /\ i <= Len(robots)
  /\ robots[i].etat = "Explorer"
  /\ SurLaStation(robots[i])
  /\ robots[i].role = "Explorateur" => robots[i].decouvertes = <<>>
  /\ robots[i].role = "Collecteur" => robots[i].cargo = NoneV

DistanceStation(robot) == DistanceMin(carte, Position(robot), <<station.x, station.y>>)

\* The update of a robot in state Retourner: on the station it switches to
\* Explorer where it stands, elsewhere its shortest-path distance to the
\* station goes down by exactly one and it stays in state Retourner.
RetourDUnPas ==
  (PasDeRobot /\ RobotAvant.etat = "Retourner") =>
    IF SurLaStation(RobotAvant)
      THEN /\ RobotApres.etat = "Explorer"
           /\ Position(RobotApres) = Position(RobotAvant)
           /\ RobotApres.decouvertes = <<>>
           /\ RobotApres.cargo = NoneV
      ELSE /\ RobotApres.etat = "Retourner"
           /\ DistanceStation(RobotAvant) >= 1
           /\ DistanceMin(carte', Position(RobotApres), <<station.x, station.y>>)
                = DistanceStation(RobotAvant) - 1

\* A robot leaves state Retourner only for the state described by Rentre.
SortieDuRetour ==
  \A i \in 1..Len(robots) : (EnRetour(i) /\ ~EnRetour(i)') => Rentre(i)'

\* C35: when the updates keep coming, every robot in state Retourner
\* eventually stands on the station in state Explorer, its discoveries
\* committed or its cargo deposited: no robot stays in state Retourner for
\* ever, a robot leaves that state only on the station and for state
\* Explorer, and each of its updates on the way brings it exactly one step
\* closer to the station along a shortest path.
C35_RetourAboutit ==
  /\ [](Len(robots) \in {0} \cup IndicesRobots)
  /\ \A i \in IndicesRobots : []<>(~EnRetour(i))
  /\ [][RetourDUnPas /\ SortieDuRetour]_vars

\* An Explorateur on its way back has left the cell of its last discovery
\* and a Collecteur carries its cargo home, two steps or more from the
\* station.
C35_Witness ==
  /\ \E i \in 1..Len(robots) :
       /\ robots[i].role = "Explorateur" /\ robots[i].etat = "Retourner"
       /\ ~SurLaStation(robots[i])
       /\ Position(robots[i]) # PositionEntree(robots[i].decouvertes[Len(robots[i].decouvertes)])
  /\ \E j \in 1..Len(robots) :
       /\ robots[j].role = "Collecteur" /\ robots[j].etat = "Retourner"
       /\ IsSome(robots[j].cargo)
       /\ DistanceStation(robots[j]) >= 2

\* Robot number i exists and has a target.
AvecCible(i) == i <= Len(robots) /\ IsSome(robots[i].cible)

\* The update of a Collecteur that has a target or claims one: a target is
\* claimed on the station only; the update brings the robot exactly one step
\* closer to the target along a shortest path; on arrival the target is
\* cleared and the state is Retourner, before that both are kept.
VersLaCibleDUnPas ==
  (PasDeRobot /\ RobotAvant.role = "Collecteur" /\ RobotAvant.etat = "Explorer"
     /\ IsSome(CibleDuPas)) =>
    LET cible == Unwrap(CibleDuPas)
        avant == DistanceMin(carte, Position(RobotAvant), cible)
        apres == DistanceMin(carte, Position(RobotApres), cible)
    IN /\ RobotAvant.cible = NoneV => SurLaStation(RobotAvant)
       /\ avant >= 1
       /\ apres = avant - 1
       /\ IF apres = 0
            THEN RobotApres.cible = NoneV /\ RobotApres.etat = "Retourner"
            ELSE RobotApres.cible = Some(cible) /\ RobotApres.etat = "Explorer"

\* A robot loses its target only for state Retourner, and only a Collecteur
\* in state Explorer ever has one.
SortieDeLaCible ==
  \A i \in 1..Len(robots) :
    /\ (AvecCible(i) /\ ~AvecCible(i)') =>
         (robots'[i].cible = NoneV /\ robots'[i].etat = "Retourner")
    /\ AvecCible(i) => (robots[i].role = "Collecteur" /\ robots[i].etat = "Explorer")

\* C36: when the updates keep coming, a Collecteur that has claimed a target
\* reaches state Retourner with the target cleared: no robot keeps a target
\* for ever, and the updates needed are as many as the steps of a shortest
\* path from the station, where the target is claimed, to the target, since
\* each update, the claiming one included, covers exactly one step and the
\* arrival clears the target.
C36_CibleAtteinte ==
  /\ [](Len(robots) \in {0} \cup IndicesRobots)
  /\ \A i \in IndicesRobots : []<>(~AvecCible(i))
  /\ [][VersLaCibleDUnPas /\ SortieDeLaCible]_vars

\* A Collecteur is on its way, off the station and one step or more from
\* its target.
C36_Witness ==
  \E i \in 1..Len(robots) :
    /\ AvecCible(i)
    /\ ~SurLaStation(robots[i])
    /\ DistanceMin(carte, Position(robots[i]), Unwrap(robots[i].cible)) >= 1

(***************************************************************************)
(* SpecRenfort: the simulation from its start on a generated map whose     *)
(* deposits pay for a second Collecteur of a module, pass after pass.      *)
(* appel holds the robots as they were when the running pass began and the *)
(* number of that pass.                                                    *)
(***************************************************************************)
CartesRenfort ==
  { CarteDe(<< <<"Energie", "Station", "Vide", "Minerai">>,
               <<"Energie", "Energie", "Obstacle", "Minerai">> >>) }

InstantaneRenfort(n) == [fn |-> "passe", robots |-> robots, n |-> n]

InitRenfort ==
  /\ carte \in CartesRenfort
  /\ station = PositionStationDe(carte)
  /\ depot = DepotInitial
  /\ robots = <<>>
  /\ robots_crees = FALSE
  /\ commandes = <<>>
  /\ curseur = 1
  /\ nb_depots = AucunDepot
  /\ nb_crees = AucunCree
  /\ appel = InstantaneRenfort(0)

\* A pass is running on the robots appel was taken from.
PasseRenfortOuverte == curseur > 1 \/ appel.robots = robots

\* The beginning of a pass: the system is handed the query as the previous
\* pass and creer_robots left it.
DebutDePasseRenfort ==
  /\ curseur = 1
  /\ appel.robots # robots
  /\ appel.n < MaxPassesRenfort
  /\ appel' = InstantaneRenfort(appel.n + 1)
  /\ UNCHANGED <<carte, station, depot, robots, robots_crees, commandes, curseur,
                 nb_depots, nb_crees>>

RenfortExplorateurExplorer == PasseRenfortOuverte /\ ExplorateurExplorer

RenfortExplorateurRetourner == PasseRenfortOuverte /\ ExplorateurRetourner

RenfortCollecteurExplorer == PasseRenfortOuverte /\ CollecteurExplorer

RenfortCollecteurRetourner == PasseRenfortOuverte /\ CollecteurRetourner

NextRenfort ==
  \/ CreerRobots
  \/ DebutDePasseRenfort
  \/ RenfortExplorateurExplorer
  \/ RenfortExplorateurRetourner
  \/ RenfortCollecteurExplorer
  \/ RenfortCollecteurRetourner

SpecRenfort == InitRenfort /\ [][NextRenfort]_vars

(***************************************************************************)
(* Properties of the targets of the Collecteurs (checked under             *)
(* SpecRenfort).                                                           *)
(***************************************************************************)
\* C37 as stated: no two Collecteurs have the same target position at the
\* same time.
C37_CiblesDistinctes ==
  \A i, j \in 1..Len(robots) :
    (i # j /\ IsSome(robots[i].cible)) => robots[i].cible # robots[j].cible

\* The ledger entries recorded for position p.
EntreesA(d, p) == {k \in 1..Len(d.decouvertes) : PositionEntree(d.decouvertes[k]) = p}

\* The ledger holds at most one entry per position.
UneEntreeParPosition ==
  \A k, l \in 1..Len(depot.decouvertes) :
    PositionEntree(depot.decouvertes[k]) = PositionEntree(depot.decouvertes[l]) => k = l

\* A claim takes the one entry of the ledger recorded for the claimed
\* position and removes it: no entry for that position is left.
ReclamationRetireLEntree ==
  (PasDeRobot /\ IsSome(CiblePrise(RobotAvant, RobotApres))) =>
    LET p == Unwrap(CiblePrise(RobotAvant, RobotApres))
    IN /\ SurLaStation(RobotAvant)
       /\ Cardinality(EntreesA(depot, p)) = 1
       /\ EntreesA(depot', p) = {}
       /\ Len(depot'.decouvertes) = Len(depot.decouvertes) - 1

\* The ledger gets entries only when an Explorateur in state Retourner is
\* updated on the station.
EntreesParLesExplorateurs ==
  (\E k \in 1..Len(depot'.decouvertes) :
     ~Contient(depot.decouvertes, depot'.decouvertes[k])) =>
    /\ PasDeRobot
    /\ RobotAvant.role = "Explorateur" /\ RobotAvant.etat = "Retourner"
    /\ SurLaStation(RobotAvant)

\* A Collecteur that reaches its target picks the resource up if the tile
\* still holds it and leaves empty-handed if not; the tile is then Vide.
UnSeulRamassage ==
  (PasDeRobot /\ RobotAvant.role = "Collecteur" /\ RobotAvant.etat = "Explorer"
     /\ IsSome(CibleDuPas) /\ RobotApres.cible = NoneV) =>
    LET p == Unwrap(CibleDuPas)
    IN /\ Position(RobotApres) = p
       /\ Tuile(carte', p) = "Vide"
       /\ IF Tuile(carte, p) = Specialite(RobotAvant)
            THEN RobotApres.cargo = Some(<<Specialite(RobotAvant), p[1], p[2]>>)
            ELSE RobotApres.cargo = NoneV /\ carte' = carte

\* C37, amended: a claimed ledger entry is exclusive.  The claim removes the
\* one entry recorded for the position, so no entry is claimed twice; the
\* position comes back into the ledger only through a report committed by an
\* Explorateur, and of the Collecteurs that then share the target only the
\* first to arrive picks the resource up.
C37_EntreeReclameeUneFois ==
  /\ []UneEntreeParPosition
  /\ [][ReclamationRetireLEntree /\ EntreesParLesExplorateurs /\ UnSeulRamassage]_vars

\* Two Collecteurs have the same target, its tile still holds the resource
\* and the entry the second one claimed is out of the ledger.
C37_Witness ==
  \E i, j \in 1..Len(robots) :
    /\ i # j
    /\ IsSome(robots[i].cible)
    /\ robots[i].cible = robots[j].cible
    /\ Tuile(carte, Unwrap(robots[i].cible)) = Specialite(robots[i])
    /\ EntreesA(depot, Unwrap(robots[i].cible)) = {}

(***************************************************************************)
(* Properties of the reports of a run (checked under Spec).                *)
(***************************************************************************)
\* The branches enregistrer_decouverte takes when the discoveries of the
\* list are committed one after the other, from entry i on.
RECURSIVE IssuesDuCommit(_, _, _)
IssuesDuCommit(d, decouvertes, i) ==
  IF i > Len(decouvertes) THEN {}
  ELSE IF decouvertes[i].resource = "Energie" \/ decouvertes[i].resource = "Minerai"
    THEN {enregistrer_issue(d, decouvertes[i])}
           \cup IssuesDuCommit(enregistrer_decouverte(d, decouvertes[i]), decouvertes, i + 1)
    ELSE IssuesDuCommit(d, decouvertes, i + 1)

\* The record names a cell of the grid and the resource the cell held when
\* the map was generated.
TypeDeGeneration(decouverte) ==
  /\ PositionEntree(decouverte) \in Cellules(carte)
  /\ decouverte.resource \in {"Energie", "Minerai"}
  /\ decouverte.resource = Tuile(CarteGeneree, PositionEntree(decouverte))

\* C38: no commit of a run takes the conflict branch of
\* enregistrer_decouverte.  Every pending discovery and every ledger entry
\* records the resource its tile had at generation, a tile only ever changes
\* from Energie or Minerai to Vide, and the commit an Explorateur makes on the
\* station finds, for each of its discoveries, no entry or an entry of the
\* same resource.
C38_JamaisDeConflit ==
  /\ [](/\ \A i \in 1..Len(TousLesRobots) :
             \A k \in 1..Len(TousLesRobots[i].decouvertes) :
               TypeDeGeneration(TousLesRobots[i].decouvertes[k])
        /\ \A k \in 1..Len(depot.decouvertes) : TypeDeGeneration(depot.decouvertes[k])
        /\ \A p \in Cellules(carte) :
             Tuile(carte, p) \in {Tuile(CarteGeneree, p), "Vide"})
  /\ [][/\ \A p \in Cellules(carte) :
             Tuile(carte', p) # Tuile(carte, p) =>
               (Tuile(carte, p) \in {"Energie", "Minerai"} /\ Tuile(carte', p) = "Vide")
        /\ (PasDeRobot /\ RobotAvant.role = "Explorateur"
              /\ RobotAvant.etat = "Retourner" /\ SurLaStation(RobotAvant)) =>
             "conflit" \notin IssuesDuCommit(depot, RobotAvant.decouvertes, 1)]_vars

\* An Explorateur is on the station about to commit a discovery made at a
\* position the ledger already holds, the resource since picked up: the
\* report and the tile differ, the report and the entry agree.
C38_Witness ==
  /\ PasDeRobot
  /\ robots[curseur].role = "Explorateur" /\ robots[curseur].etat = "Retourner"
  /\ SurLaStation(robots[curseur])
  /\ \E k \in 1..Len(robots[curseur].decouvertes) :
       LET dec == robots[curseur].decouvertes[k]
       IN /\ enregistrer_issue(depot, dec) = "deja_enregistree"
          /\ Tuile(carte, PositionEntree(dec)) = "Vide"

(***************************************************************************)
(* Properties of the claims of ledger entries (checked under SpecTicks).   *)
(***************************************************************************)
\* The records a ledger of the simulation can hold: the resource tiles of
\* the generated maps.
EntreesImaginables ==
  UNION {{MkDecouverte(Tuile(c, p), p[1], p[2]) :
            p \in {q \in Cellules(c) : Tuile(c, q) \in {"Energie", "Minerai"}}} :
           c \in CartesSimulation}

\* The record is in the ledger and its tile still holds its resource.
EnAttente(decouverte) ==
  /\ Contient(depot.decouvertes, decouverte)
  /\ PositionEntree(decouverte) \in Cellules(carte)
  /\ Tuile(carte, PositionEntree(decouverte)) = decouverte.resource

\* The index of the entry the update under way removes from the ledger, 0
\* when it removes none.
IndexReclame ==
  IF Len(depot'.decouvertes) < Len(depot.decouvertes)
    THEN CHOOSE k \in 1..Len(depot.decouvertes) :
           depot'.decouvertes = Retirer(depot.decouvertes, k)
    ELSE 0

\* A Collecteur of the type of a waiting entry exists.
CollecteurDuType(resource) ==
  \E i \in 1..Len(robots) :
    robots[i].role = "Collecteur" /\ Specialite(robots[i]) = resource

\* The update of a Collecteur without target on the station: if the ledger
\* holds entries of its type whose tile still holds the resource, it takes
\* the first of them, entries of emptied tiles before it notwithstanding; if
\* it holds none, it takes nothing.  No other update removes an entry.
PremiereEntreeValide ==
  IF PasDeRobot /\ RobotAvant.role = "Collecteur" /\ RobotAvant.etat = "Explorer"
       /\ RobotAvant.cible = NoneV /\ SurLaStation(RobotAvant)
    THEN LET valides == {k \in 1..Len(depot.decouvertes) :
                           EntreeValide(k, Specialite(RobotAvant))}
         IN IF valides = {}
              THEN depot' = depot
              ELSE /\ IndexReclame \in valides
                   /\ \A k \in valides : IndexReclame <= k
                   /\ CiblePrise(RobotAvant, RobotApres)
                        = Some(PositionEntree(depot.decouvertes[IndexReclame]))
    ELSE IndexReclame = 0

\* A waiting entry stops waiting only when it is claimed or when its tile is
\* emptied.
FinDAttente ==
  \A decouverte \in EntreesImaginables :
    (EnAttente(decouverte) /\ ~EnAttente(decouverte)') =>
      \/ IndexReclame # 0 /\ depot.decouvertes[IndexReclame] = decouverte
      \/ Tuile(carte', PositionEntree(decouverte)) = "Vide"

\* C39: when the updates keep coming, every ledger entry whose tile still
\* holds its resource is eventually claimed or its tile emptied, a Collecteur
\* of its type being there; a claim takes the first entry of the
\* Collecteur's type whose tile holds the resource, in the order of
\* insertion, and entries of emptied tiles do not stand in its way.
C39_EntreesServies ==
  /\ [](\A k \in 1..Len(depot.decouvertes) :
          /\ depot.decouvertes[k] \in EntreesImaginables
          /\ CollecteurDuType(depot.decouvertes[k].resource))
  /\ \A decouverte \in EntreesImaginables : []<>(~EnAttente(decouverte))
  /\ [][PremiereEntreeValide /\ FinDAttente]_vars

\* A Collecteur without target is on the station, about to be updated; the
\* ledger holds an entry of its type whose tile was emptied and, after it,
\* one whose tile still holds the resource.
C39_Witness ==
  /\ PasDeRobot
  /\ robots[curseur].role = "Collecteur" /\ robots[curseur].etat = "Explorer"
  /\ robots[curseur].cible = NoneV /\ SurLaStation(robots[curseur])
  /\ \E j, k \in 1..Len(depot.decouvertes) :
       /\ j < k
       /\ depot.decouvertes[j].resource = Specialite(robots[curseur])
       /\ Tuile(carte, PositionEntree(depot.decouvertes[j])) = "Vide"
       /\ EntreeValide(k, Specialite(robots[curseur]))

(***************************************************************************)
(* Properties of repeated calls of limiter_taille_obstacles (checked under *)
(* SpecLimiter).                                                           *)
(***************************************************************************)
\* The cells of the grid the last call changed.
CellulesChangees ==
  {p \in Cellules(carte) : carte.donnees[p[2]][p[1]] # appel.avant[p[2]][p[1]]}

\* C40: limiter_taille_obstacles only removes obstacles and is idempotent.
\* A call changes no cell that was not an Obstacle, the cells it changes
\* become Vide, so it creates no Obstacle; a second call, on the output of
\* the first, changes no cell.
C40_RetireSeulementEtIdempotent ==
  AppelLimiterFait =>
    /\ \A p \in CellulesChangees :
         appel.avant[p[2]][p[1]] = "Obstacle" /\ carte.donnees[p[2]][p[1]] = "Vide"
    /\ \A p \in Cellules(carte) :
         carte.donnees[p[2]][p[1]] = "Obstacle" => appel.avant[p[2]][p[1]] = "Obstacle"
    /\ appel.passes >= 2 => CellulesChangees = {}

\* A second call was made on a grid the first call had trimmed, Obstacle
\* cells left in it next to cells it had cleared.
C40_Witness ==
  /\ AppelLimiterFait /\ appel.passes = 2
  /\ appel.origine # appel.avant
  /\ carte.donnees = appel.avant
  /\ \E p, q \in Cellules(carte) :
       /\ Adjacent(p, q)
       /\ carte.donnees[p[2]][p[1]] = "Obstacle"
       /\ carte.donnees[q[2]][q[1]] = "Vide" /\ appel.origine[q[2]][q[1]] = "Obstacle"

====
